---- MODULE Spec2Model ----
(***************************************************************************)
(* TransactionController (criptoarchi/controllers): the life cycle of the  *)
(* transaction records kept in the controller state, the approval pipeline *)
(* under the controller's mutex, the fee-bump operations, the confirmation *)
(* poller and the per-transaction result promise.                          *)
(*                                                                         *)
(* JavaScript runs one callback at a time, so every action below is one    *)
(* synchronous stretch of a method: from its call, or from the resumption  *)
(* of an await, up to its next await or its end.                           *)
(*                                                                         *)
(* Every asynchronous invocation is an entry of `calls`; its position in   *)
(* the sequence is its call order.  A record created by invocation t gets  *)
(* the id t (random() yields a fresh uuid on each call).  Objects are      *)
(* values tagged with `ref`, the identity of the JavaScript object, which  *)
(* is what the poller's in-place assignment acts on.                       *)
(***************************************************************************)
EXTENDS Integers, Sequences, FiniteSets, TLC

VARIABLES
    txs,         \* this.state.transactions, the published list
    methodData,  \* this.state.methodData: the cached pairs of prefix and entry
    calls,       \* the asynchronous invocations made so far, in call order
    mutexOwner,  \* the invocation holding this.mutex, 0 when it is free
    mutexQueue,  \* the invocations suspended in mutex.acquire(), FIFO
    sign,        \* whether this.sign is configured
    chainId,     \* getNetworkState().provider.chainId, "" when undefined
    pending,     \* the node's getTransactionCount(from, 'pending')
    listeners,   \* ids with a hub.once(`${id}:finished`) listener registered
    promise,     \* the result promise returned by addTransaction, by id
    budget,      \* the invocations the environment may still make, by method
    handle,      \* this.handle: the timer set by the last poll that ended, 0 for none
    timers,      \* the timers that are pending, each with its delay
    interval,    \* this.config.interval
    included,    \* the node: the hashes of the transactions included in a block
    explorer,    \* the block explorer: the lists handleTransactionFetch answers
    network      \* getNetworkState().network, the legacy network id

\* The poller's timer and configuration, and the chain it watches.
poller == <<handle, timers, interval, included>>

vars == <<txs, methodData, calls, mutexOwner, mutexQueue, sign, chainId,
          pending, listeners, promise, budget, handle, timers, interval,
          included, explorer, network>>

\* Spec: the number of asynchronous invocations of one behaviour, of any method.
MaxCalls == 3

\* SpecPipeline: the approveTransaction invocations of one behaviour.
PipelineApproves == 2

\* SpecResult: the approveTransaction invocations of one behaviour.
ResultApproves == 2

\* SpecPoller: the external calls of poll(interval) of one behaviour.
PollerPolls == 1

\* SpecEstimate: the largest gas limit of a block and the largest estimate
\* the node answers.
MaxGas == 20

\* SpecBump: the calls of stopTransaction / speedUpTransaction, and the
\* largest gas price of the persisted record.
BumpCalls == 2

MaxGasPrice == 20

\* SpecHub: the asynchronous invocations of one behaviour.
HubCalls == 3

\* SpecFetch: the calls of fetchAll, the records of the persisted Store and
\* the entries of the explorer's list of native transactions.
FetchCalls == 2

\* SpecMethod: the calls of handleMethodData.
MethodCalls == 3

\* SpecAdd: the calls of addTransaction.
AddCalls == 3

MaxLocal == 2

\* SpecWipe: the records of the persisted Store.
MaxWiped == 3

MaxRemote == 2

\* The invocations of one behaviour are numbered in call order; no
\* specification has more of them than the largest of its budgets allows.
Largest(S) == CHOOSE n \in S : \A m \in S : m <= n

CallIds ==
    1..Largest({MaxCalls, PipelineApproves, ResultApproves + 1, HubCalls,
                PollerPolls + 2, BumpCalls, FetchCalls,
                MethodCalls, AddCalls})

Methods ==
    {"add", "approve", "bump", "tick", "method", "poll", "estimate", "fetch"}

\* defaultConfig.interval
DefaultInterval == 5000

\* The values of config.interval: the default and one a client sets.
Intervals == {DefaultInterval, 2 * DefaultInterval}

\* The network id of the main network.
Mainnet == "1"

\* What the block explorer answers when it knows no transaction: the list of
\* native transactions and the list of token transfers, both empty.
NoResponse == [native |-> <<>>, token |-> <<>>]

\* The poller of a specification that leaves the timers out: no timer is
\* ever pending, and the node answers a status query at will.
PollerLeftOut ==
    /\ handle = 0
    /\ timers = {}
    /\ interval = DefaultInterval
    /\ included = {}

\* chainId values of the provider; "" stands for an undefined chain id.
ChainIds == {"", "1"}

\* A four-byte prefix handed to handleMethodData.
Selectors == {"0xa9059cbb"}

\* The entry the registry answers a lookup with.
Transfer == "transfer(address,uint256)"

\* Object.keys(methodData)
Keys(entries) == {entry[1] : entry \in entries}

\* methodData[fourBytePrefix] of a known prefix.
Cached(entries, fourBytePrefix) ==
    (CHOOSE entry \in entries : entry[1] = fourBytePrefix)[2]

\* { ...methodData, ...{ [fourBytePrefix]: registry } }
Stored(entries, fourBytePrefix, registry) ==
    {entry \in entries : entry[1] # fourBytePrefix}
        \cup {<<fourBytePrefix, registry>>}

\* transaction.nonce is optional: -1 stands for undefined.
NoNonce == -1

\* transactionHash is optional: 0 stands for undefined.
NoHash == 0

\* An id no record of the Store carries.
UnknownId == 0

NoError == ""

NoSignMsg == "No sign method defined."

NoChainMsg == "No chainId defined."

\* A hex string ('0x...') is the sequence of its digits; the empty sequence
\* stands for undefined.
Undefined == <<>>

\* The fields of the drafts handed to addTransaction.
Sender == "0xaa"

Recipient == "0xbb"

DraftValue == <<1>>

DraftData == "0xdd"

DraftGasPrice == <<1, 5>>

\* What estimateGas has not returned.
NoReturn == [gas |-> Undefined, gasPrice |-> Undefined]

\* The value of an absent TransactionMeta (transactions[-1], find() === undefined).
NoMeta ==
    [id |-> UnknownId, ref |-> <<0, 0>>, status |-> "none", nonce |-> NoNonce,
     hash |-> NoHash, raw |-> FALSE, error |-> NoError, chain |-> "",
     from |-> "", to |-> "", value |-> Undefined, data |-> "",
     gas |-> Undefined, gasPrice |-> Undefined, isTokenTx |-> FALSE,
     time |-> 0, networkID |-> ""]

\* The payload of a hub event that was never emitted.
NoPayload == [status |-> "none", hash |-> NoHash, error |-> NoError]

\* A pending, unsettled result promise; n counts the calls of resolve/reject,
\* by is the payload of the `finished` event its listener was called with.
NoPromise ==
    [st |-> "none", hash |-> NoHash, msg |-> "", n |-> 0, by |-> NoPayload]

Ids(list) == {list[i].id : i \in DOMAIN list}

\* Array.prototype.findIndex on the id; 0 stands for -1.
IndexOf(list, id) ==
    IF \E i \in DOMAIN list : list[i].id = id
    THEN CHOOSE i \in DOMAIN list :
            list[i].id = id /\ \A j \in 1..(i - 1) : list[j].id # id
    ELSE 0

\* transactions.find(({ id }) => id === transactionID), NoMeta for undefined;
\* also transactions[transactions.findIndex(...)].
Found(list, id) == IF IndexOf(list, id) = 0 THEN NoMeta ELSE list[IndexOf(list, id)]

\* A removal that removes nothing.
Kept(list, id) == list

\* transactions.filter(({ id }) => id !== transactionID); also
\* tempTxs.splice(findIndex, 1) on the index of a record that was found.
Without(list, id) == SelectSeq(list, LAMBDA r : r.id # id)


\* tempTxs[index] = transactionMeta; [...tempTxs].  With index -1 the
\* assignment sets a property, not an element, and the spread drops it.
UpdateTransaction(list, meta) ==
    LET i == IndexOf(list, meta.id)
    IN  IF i = 0 THEN list ELSE [list EXCEPT ![i] = meta]

\* { ...transactionMeta, error, status: TransactionStatus.failed }
Failed(meta, error, ref) ==
    [meta EXCEPT !.error = error, !.status = "failed", !.ref = ref]

\* transactions[index].status = TransactionStatus.confirmed, an assignment to
\* the object itself: every list that holds the object shows the new status.
Poke(list, ref) ==
    [i \in DOMAIN list |->
        IF list[i].ref = ref THEN [list[i] EXCEPT !.status = "confirmed"]
        ELSE list[i]]

\* A chain test that takes every record without a chain id for a record of
\* the current network.
IsCurrentNetworkWithoutChainId(meta) == meta.chain = chainId \/ meta.chain = ""

\* isCurrentNetwork of the poller and of wipeTransactions: the chain id is
\* the current one, or there is none and the network id is the current one.
IsCurrentNetwork(meta) ==
    meta.chain = chainId \/ (meta.chain = "" /\ meta.networkID = network)

(***************************************************************************)
(* The hub and the result promise                                          *)
(***************************************************************************)

\* A switch without the rejected case: a user rejection falls through to
\* the default branch.
SettleWithoutRejected(p, meta) ==
    CASE meta.status = "submitted" ->
            [p EXCEPT !.st = "resolved", !.hash = meta.hash, !.n = @ + 1]
      [] meta.status = "cancelled" ->
            [p EXCEPT !.st = "internal",
                      !.msg = "User cancelled the transaction", !.n = @ + 1]
      [] meta.status = "failed" ->
            [p EXCEPT !.st = "internal", !.msg = meta.error, !.n = @ + 1]
      [] OTHER ->
            [p EXCEPT !.st = "internal",
                      !.msg = "MetaMask Tx Signature: Unknown problem",
                      !.n = @ + 1]

\* The switch of the `finished` listener of addTransaction.
Settle(p, meta) ==
    CASE meta.status = "submitted" ->
            [p EXCEPT !.st = "resolved", !.hash = meta.hash, !.n = @ + 1]
      [] meta.status = "rejected" ->
            [p EXCEPT !.st = "userRejected",
                      !.msg = "User rejected the transaction", !.n = @ + 1]
      [] meta.status = "cancelled" ->
            [p EXCEPT !.st = "internal",
                      !.msg = "User cancelled the transaction", !.n = @ + 1]
      [] meta.status = "failed" ->
            [p EXCEPT !.st = "internal", !.msg = meta.error, !.n = @ + 1]
      [] OTHER ->
            [p EXCEPT !.st = "internal",
                      !.msg = "MetaMask Tx Signature: Unknown problem",
                      !.n = @ + 1]

\* hub.once: the listener is removed when it is called.
ListenersAfterFinished(id) == listeners \ {id}

\* this.hub.emit(`${id}:finished`, meta)
PromiseAfterFinished(id, meta) ==
    IF id \in listeners
    THEN [promise EXCEPT ![id] =
            IF @.st = "pending"
            THEN Settle([@ EXCEPT !.by = [status |-> meta.status,
                                          hash |-> meta.hash,
                                          error |-> meta.error]], meta)
            ELSE [@ EXCEPT !.n = @ + 1]]
    ELSE promise

\* An emitted event, as logged by the invocation that emitted it.
Event(name, id, meta) ==
    [name |-> name, id |-> id, status |-> meta.status, error |-> meta.error,
     metaId |-> meta.id, hash |-> meta.hash]

(***************************************************************************)
(* The mutex (async-mutex): FIFO hand-over, a releaser that acts once      *)
(***************************************************************************)

\* A lock that excludes nobody: acquire() resolves for every caller at once.
GrantedAtOnce(t) == t

\* acquire() of invocation t: granted when the lock is free, queued otherwise.
OwnerAfterAcquire(t) == IF mutexOwner = 0 THEN t ELSE mutexOwner

QueueAfterAcquire(t) ==
    IF mutexOwner = 0 THEN mutexQueue ELSE Append(mutexQueue, t)

\* releaseLock() of invocation t; a second call of the same releaser does nothing.
OwnerAfterRelease(t) ==
    IF mutexOwner # t THEN mutexOwner
    ELSE IF mutexQueue = <<>> THEN 0 ELSE Head(mutexQueue)

QueueAfterRelease(t) ==
    IF mutexOwner = t /\ mutexQueue # <<>> THEN Tail(mutexQueue) ELSE mutexQueue

(***************************************************************************)
(* Invocations                                                             *)
(***************************************************************************)

NewCall(kind, id) ==
    [kind  |-> kind,     \* the method invoked
     pc    |-> "call",   \* the await it is suspended at, "done" at its end
     id    |-> id,       \* its transactionID argument; for add, the new id
     snap  |-> <<>>,     \* its `transactions` / `tempTxs` local
     tmp   |-> NoMeta,   \* its transactionMeta / tempTxMeta local
     pend  |-> {},       \* poller: indices whose query is in flight
     got   |-> FALSE,    \* poller: gotUpdates
     md    |-> {},       \* handleMethodData: its `methodData` local
     sel   |-> "",       \* handleMethodData: its fourBytePrefix argument
     out   |-> "",       \* how it ended: "ok", or the error it threw
     ev    |-> <<>>,     \* the hub events it emitted, in order
     io    |-> {},       \* the node queries and sign calls it issued
     over  |-> {},       \* approve: the approvals in flight when it was called
     nonce |-> NoNonce,  \* approve: the txNonce it assigned; add: the draft's
     shown |-> {},       \* approve: the statuses it published for its id
     timer |-> "none",   \* tick: "await" when poll awaits it, "set" after
     sent  |-> NoMeta,   \* stop/speedUp: the txParams signed and broadcast
     custom |-> FALSE,   \* estimateGas: isCustomNetwork as it read it
     limit |-> Undefined,  \* estimateGas: gasLimit of the latest block
     code  |-> "",       \* estimateGas: the code at `to`, "" for undefined
     est   |-> Undefined,  \* estimateGas: gasHex, the estimate of the node
     ret   |-> NoReturn, \* estimateGas: the { gas, gasPrice } it returns
     address |-> "",     \* fetchAll: its address argument
     removed |-> {},     \* fetchAll: removeLocalEtherTxs and removeLocalTokenTxs
     added |-> <<>>,     \* fetchAll: remoteEtherTxsForAdd, then remoteTokenTxsForAdd
     remote |-> <<>>,    \* fetchAll: remoteEtherTxs, then remoteTokenTxs
     chain |-> "",       \* fetchAll: currentChainId as it read it
     network |-> "",     \* fetchAll: currentNetworkID as it read it
     registry |-> "",    \* handleMethodData: the entry it returns
     wrote |-> 0]        \* fetchAll: its calls of this.update

\* The locals of an ended invocation are garbage.
Ended(c, out) ==
    [c EXCEPT !.pc = "done", !.out = out, !.snap = <<>>, !.tmp = NoMeta,
              !.md = {}]

Live(kind) == {t \in DOMAIN calls : calls[t].kind = kind /\ calls[t].pc # "done"}

At(t, kind, pc) ==
    t \in DOMAIN calls /\ calls[t].kind = kind /\ calls[t].pc = pc

\* The environment may invoke one more `method`.
CanCall(method) == budget.total > 0 /\ budget[method] > 0

Spend(method) ==
    budget' = [budget EXCEPT !.total = @ - 1, ![method] = @ - 1]

Init ==
    /\ txs = <<>>
    /\ methodData = {}
    /\ calls = <<>>
    /\ mutexOwner = 0
    /\ mutexQueue = <<>>
    /\ sign \in BOOLEAN
    /\ chainId \in ChainIds
    /\ pending = 0
    /\ listeners = {}
    /\ promise = [i \in CallIds |-> NoPromise]
    /\ budget = [m \in Methods \cup {"total"} |-> MaxCalls]
    /\ PollerLeftOut
    /\ explorer = NoResponse
    /\ network = Mainnet


(***************************************************************************)
(* addTransaction                                                          *)
(***************************************************************************)

\* addTransaction up to `await this.estimateGas(...)`: the state is read and
\* copied into tempTxs, the draft is validated, the meta object is built.
AddCall(nonce) ==
    /\ CanCall("add")
    /\ Spend("add")
    /\ LET t == Len(calls) + 1
           meta == [NoMeta EXCEPT !.id = t, !.ref = <<t, 0>>,
                                  !.status = "unapproved", !.nonce = nonce,
                                  !.chain = chainId, !.networkID = network,
                                  !.from = Sender,
                                  !.to = Recipient, !.value = DraftValue,
                                  !.data = DraftData,
                                  !.gasPrice = DraftGasPrice]
       IN  calls' = Append(calls, [NewCall("add", t) EXCEPT
                        !.pc = "estimateGas", !.snap = txs, !.tmp = meta,
                        !.nonce = nonce, !.io = {"estimateGas"}])
    /\ UNCHANGED <<txs, methodData, mutexOwner, mutexQueue, sign, chainId,
                   pending, listeners, promise>>
    /\ UNCHANGED <<poller, explorer, network>>

\* validateTransaction(normalTransaction) of ../util throws on a malformed
\* draft: addTransaction rejects before the record is built and before
\* estimateGas is called.
AddInvalid ==
    /\ CanCall("add")
    /\ Spend("add")
    /\ calls' = Append(calls,
            Ended(NewCall("add", UnknownId), "invalid transaction"))
    /\ UNCHANGED <<txs, methodData, mutexOwner, mutexQueue, sign, chainId,
                   pending, listeners, promise>>
    /\ UNCHANGED <<poller, explorer, network>>

\* estimateGas resolved: the listener is registered, tempTxs with the new
\* record replaces the state, `unapprovedTransaction` is emitted.
AddDone(t) ==
    /\ At(t, "add", "estimateGas")
    /\ LET c == calls[t]
       IN  /\ listeners' = listeners \cup {t}
           /\ promise' = [promise EXCEPT ![t] = [@ EXCEPT !.st = "pending"]]
           /\ txs' = Append(c.snap, c.tmp)
           /\ calls' = [calls EXCEPT ![t] = Ended(
                  [c EXCEPT !.ev = Append(@, Event("unapprovedTransaction", t, c.tmp))],
                  "ok")]
    /\ UNCHANGED <<methodData, mutexOwner, mutexQueue, sign, chainId, pending, budget>>
    /\ UNCHANGED <<poller, explorer, network>>

\* estimateGas rejected: failTransaction on a record that is not in the
\* state, then the rejection.
AddFail(t) ==
    /\ At(t, "add", "estimateGas")
    /\ LET c == calls[t]
           f == Failed(c.tmp, "estimateGas failed", <<t, 4>>)
       IN  /\ txs' = UpdateTransaction(txs, f)
           /\ promise' = PromiseAfterFinished(t, f)
           /\ listeners' = ListenersAfterFinished(t)
           /\ calls' = [calls EXCEPT ![t] = Ended(
                  [c EXCEPT !.ev = Append(@, Event("finished", t, f))],
                  "estimateGas failed")]
    /\ UNCHANGED <<methodData, mutexOwner, mutexQueue, sign, chainId, pending, budget>>
    /\ UNCHANGED <<poller, explorer, network>>

(***************************************************************************)
(* approveTransaction                                                      *)
(***************************************************************************)

\* approveTransaction up to `await this.mutex.acquire()`: the state is read
\* before the lock is asked for.  Of the list read, the invocation uses
\* transactions[index] alone, the object the list holds for the id.
ApproveCall(id) ==
    /\ CanCall("approve")
    /\ Spend("approve")
    /\ id \in Ids(txs) \cup {UnknownId}
    /\ LET t == Len(calls) + 1
       IN  /\ calls' = Append(calls, [NewCall("approve", id) EXCEPT
                        !.pc = "acquire", !.tmp = Found(txs, id),
                        !.over = Live("approve")])
           /\ mutexOwner' = OwnerAfterAcquire(t)
           /\ mutexQueue' = QueueAfterAcquire(t)
    /\ UNCHANGED <<txs, methodData, sign, chainId, pending, listeners, promise>>
    /\ UNCHANGED <<poller, explorer, network>>

\* this.failTransaction(tempTxMeta, error) followed by the end of the
\* invocation, the lock released in the finally block.  c is the invocation
\* with its locals as they are when the error is caught.
ApproveFails(t, c, error) ==
    LET f == Failed(c.tmp, error, <<t, 4>>)
    IN  /\ txs' = UpdateTransaction(txs, f)
        /\ promise' = PromiseAfterFinished(c.id, f)
        /\ listeners' = ListenersAfterFinished(c.id)
        /\ mutexOwner' = OwnerAfterRelease(t)
        /\ mutexQueue' = QueueAfterRelease(t)
        /\ calls' = [calls EXCEPT ![t] = Ended(
               [c EXCEPT !.ev = Append(@, Event("finished", c.id, f)),
                         !.shown = @ \cup {"failed"}], error)]

\* The lock is granted and the id is not in the list read at the call:
\* transactions[-1].transaction throws before the try block is entered.
ApproveUnknown(t) ==
    /\ At(t, "approve", "acquire")
    /\ mutexOwner = t
    /\ calls[t].tmp = NoMeta
    /\ calls' = [calls EXCEPT ![t] = Ended(@, "TypeError")]
    /\ UNCHANGED <<txs, methodData, mutexOwner, mutexQueue, sign, chainId,
                   pending, listeners, promise, budget>>
    /\ UNCHANGED <<poller, explorer, network>>

\* The lock is granted, the record is found: no signer, or no chain id.
\* releaseLock() is called before failTransaction and again in finally.
ApprovePrecondition(t) ==
    /\ At(t, "approve", "acquire")
    /\ mutexOwner = t
    /\ calls[t].tmp # NoMeta
    /\ ~sign \/ chainId = ""
    /\ LET c == calls[t]
           meta == c.tmp
       IN  ApproveFails(t, [c EXCEPT !.tmp = [meta EXCEPT !.ref = <<t, 1>>]],
                        IF ~sign THEN NoSignMsg ELSE NoChainMsg)
    /\ UNCHANGED <<methodData, sign, chainId, pending, budget>>
    /\ UNCHANGED <<poller, explorer, network>>

\* The lock is granted, signer and chain id are there: the nonce query is
\* issued when the record has no nonce, the signer is called when it has.
ApproveBegin(t) ==
    /\ At(t, "approve", "acquire")
    /\ mutexOwner = t
    /\ calls[t].tmp # NoMeta
    /\ sign /\ chainId # ""
    /\ LET c == calls[t]
           meta == c.tmp
           copy == [meta EXCEPT !.ref = <<t, 1>>]
       IN  calls' = [calls EXCEPT ![t] =
               IF meta.nonce = NoNonce
               THEN [c EXCEPT !.pc = "getTransactionCount", !.tmp = copy,
                              !.io = @ \cup {"getTransactionCount"}]
               ELSE [c EXCEPT !.pc = "sign",
                              !.tmp = [copy EXCEPT !.status = "approved"],
                              !.nonce = meta.nonce,
                              !.io = @ \cup {"sign"}]]
    /\ UNCHANGED <<txs, methodData, mutexOwner, mutexQueue, sign, chainId,
                   pending, listeners, promise, budget>>
    /\ UNCHANGED <<poller, explorer, network>>

\* getTransactionCount resolved: the nonce is set on tempTxMeta and the
\* signer is called; this.sign read as undefined throws a TypeError.
ApproveNonce(t) ==
    /\ At(t, "approve", "getTransactionCount")
    /\ LET c == calls[t]
           withNonce == [c EXCEPT !.tmp = [@ EXCEPT !.status = "approved",
                                                   !.nonce = pending],
                                  !.nonce = pending]
       IN  IF sign
           THEN /\ calls' = [calls EXCEPT ![t] =
                       [withNonce EXCEPT !.pc = "sign", !.io = @ \cup {"sign"}]]
                /\ UNCHANGED <<txs, mutexOwner, mutexQueue, listeners, promise>>
           ELSE ApproveFails(t, withNonce, "TypeError")
    /\ UNCHANGED <<methodData, sign, chainId, pending, budget>>
    /\ UNCHANGED <<poller, explorer, network>>

\* getTransactionCount rejected.
ApproveNonceFail(t) ==
    /\ At(t, "approve", "getTransactionCount")
    /\ ApproveFails(t, calls[t], "getTransactionCount failed")
    /\ UNCHANGED <<methodData, sign, chainId, pending, budget>>
    /\ UNCHANGED <<poller, explorer, network>>

\* The signer resolved: status signed, then the raw transaction, are
\* published (two updateTransaction calls in a row), sendRawTransaction is issued.
ApproveSigned(t) ==
    /\ At(t, "approve", "sign")
    /\ LET c == calls[t]
           signed == [c.tmp EXCEPT !.status = "signed", !.raw = TRUE,
                                   !.ref = <<t, 2>>]
       IN  /\ txs' = UpdateTransaction(txs, signed)
           /\ calls' = [calls EXCEPT ![t] =
                  [c EXCEPT !.pc = "sendRawTransaction", !.tmp = signed,
                            !.io = @ \cup {"sendRawTransaction"},
                            !.shown = @ \cup {"signed"}]]
    /\ UNCHANGED <<methodData, mutexOwner, mutexQueue, sign, chainId, pending,
                   listeners, promise, budget>>
    /\ UNCHANGED <<poller, explorer, network>>

\* The signer rejected.
ApproveSignFail(t) ==
    /\ At(t, "approve", "sign")
    /\ ApproveFails(t, calls[t], "sign failed")
    /\ UNCHANGED <<methodData, sign, chainId, pending, budget>>
    /\ UNCHANGED <<poller, explorer, network>>

\* sendRawTransaction resolved with the hash: the node counts one more
\* pending transaction, status submitted is published, `finished` emitted.
ApproveSubmitted(t) ==
    /\ At(t, "approve", "sendRawTransaction")
    /\ LET c == calls[t]
           sub == [c.tmp EXCEPT !.status = "submitted", !.hash = t,
                                !.ref = <<t, 3>>]
       IN  /\ txs' = UpdateTransaction(txs, sub)
           /\ pending' = pending + 1
           /\ promise' = PromiseAfterFinished(c.id, sub)
           /\ listeners' = ListenersAfterFinished(c.id)
           /\ mutexOwner' = OwnerAfterRelease(t)
           /\ mutexQueue' = QueueAfterRelease(t)
           /\ calls' = [calls EXCEPT ![t] = Ended(
                  [c EXCEPT !.ev = Append(@, Event("finished", c.id, sub)),
                            !.shown = @ \cup {"submitted"}], "ok")]
    /\ UNCHANGED <<methodData, sign, chainId, budget>>
    /\ UNCHANGED <<poller, explorer, network>>

\* sendRawTransaction rejected.
ApproveSendFail(t) ==
    /\ At(t, "approve", "sendRawTransaction")
    /\ ApproveFails(t, calls[t], "sendRawTransaction failed")
    /\ UNCHANGED <<methodData, sign, chainId, pending, budget>>
    /\ UNCHANGED <<poller, explorer, network>>


(***************************************************************************)
(* cancelTransaction, stopTransaction, speedUpTransaction                  *)
(***************************************************************************)

\* cancelTransaction: `finished` with a rejected copy, then the removal.
CancelTransaction(id) ==
    /\ id \in Ids(txs)
    /\ LET meta == txs[IndexOf(txs, id)]
           copy == [meta EXCEPT !.status = "rejected"]
       IN  /\ promise' = PromiseAfterFinished(id, copy)
           /\ listeners' = ListenersAfterFinished(id)
           /\ txs' = Without(txs, id)
    /\ UNCHANGED <<methodData, calls, mutexOwner, mutexQueue, sign, chainId,
                   pending, budget>>
    /\ UNCHANGED <<poller, explorer, network>>

\* The status of the replacement record.
BumpStatus(kind) ==
    IF kind = "stop" THEN "cancelSubmitted" ELSE "accelerateSubmitted"

\* CANCEL_RATE = 1.5 and SPEED_UP_RATE = 1.1, in tenths.
CANCEL_RATE == 15

SPEED_UP_RATE == 11

\* The rates taken one for the other.
RateSwapped(kind) == IF kind = "stop" THEN SPEED_UP_RATE ELSE CANCEL_RATE

\* The rate each method multiplies the gas price by.
Rate(kind) == IF kind = "stop" THEN CANCEL_RATE ELSE SPEED_UP_RATE

RECURSIVE ParseInt16(_)
\* parseInt(s, 16) of a hex string.
ParseInt16(s) ==
    IF s = <<>> THEN 0
    ELSE 16 * ParseInt16(SubSeq(s, 1, Len(s) - 1)) + s[Len(s)]

RECURSIVE Digits(_, _)
\* n.toString(radix) of a whole number: its digits.
Digits(n, radix) ==
    IF n < radix THEN <<n>>
    ELSE Append(Digits(n \div radix, radix), n % radix)

\* The character "." of a decimal string, next to the digits 0..9.
Point == 10

\* `${n * rate}`: the product as a decimal string, the digits of its whole
\* part, then the point and the tenths when it is not whole.
Product(n, rate) ==
    Digits((n * rate) \div 10, 10) \o
        (IF (n * rate) % 10 = 0 THEN <<>> ELSE <<Point, (n * rate) % 10>>)

RECURSIVE LeadingDigits(_, _)
\* parseInt(s, 10): the value of the digits before the first other character.
LeadingDigits(s, value) ==
    IF s = <<>> \/ Head(s) = Point THEN value
    ELSE LeadingDigits(Tail(s), 10 * value + Head(s))

ParseInt10(s) == LeadingDigits(s, 0)

\* The gas price of the replacement: the existing one, '0x0' when undefined,
\* parsed, multiplied by the rate, cut to a whole number, written in hex.
BumpedGasPrice(existingGasPrice, rate) ==
    LET existingGasPriceDecimal ==
            ParseInt16(IF existingGasPrice = Undefined THEN <<0>>
                       ELSE existingGasPrice)
    IN  Digits(ParseInt10(Product(existingGasPriceDecimal, rate)), 16)

\* txParams of stopTransaction: a transfer of nothing from the sender to
\* itself with the nonce of the original; of speedUpTransaction: the
\* transaction of the original; both with the new gas price.
TxParams(kind, meta) ==
    IF kind = "stop"
    THEN [meta EXCEPT !.to = meta.from, !.value = <<0>>, !.data = "",
                      !.gasPrice = BumpedGasPrice(meta.gasPrice, Rate(kind))]
    ELSE [meta EXCEPT !.gasPrice = BumpedGasPrice(meta.gasPrice, Rate(kind))]

\* stopTransaction / speedUpTransaction of an id the state does not hold:
\* the method returns at once.
BumpUnknown(kind, id) ==
    /\ CanCall("bump")
    /\ Spend("bump")
    /\ kind \in {"stop", "speedUp"}
    /\ id \notin Ids(txs)
    /\ calls' = Append(calls, Ended(NewCall(kind, id), "ok"))
    /\ UNCHANGED <<txs, methodData, mutexOwner, mutexQueue, sign, chainId,
                   pending, listeners, promise>>
    /\ UNCHANGED <<poller, explorer, network>>

\* A missing signer that goes unnoticed: the method returns.
BumpNoSignSilent(kind, id) ==
    /\ CanCall("bump")
    /\ Spend("bump")
    /\ kind \in {"stop", "speedUp"}
    /\ id \in Ids(txs)
    /\ ~sign
    /\ calls' = Append(calls, Ended(NewCall(kind, id), "ok"))
    /\ UNCHANGED <<txs, methodData, mutexOwner, mutexQueue, sign, chainId,
                   pending, listeners, promise>>
    /\ UNCHANGED <<poller, explorer, network>>

\* stopTransaction / speedUpTransaction of a record while no signer is
\* configured: the method throws.
BumpNoSign(kind, id) ==
    /\ CanCall("bump")
    /\ Spend("bump")
    /\ kind \in {"stop", "speedUp"}
    /\ id \in Ids(txs)
    /\ ~sign
    /\ calls' = Append(calls, Ended(NewCall(kind, id), NoSignMsg))
    /\ UNCHANGED <<txs, methodData, mutexOwner, mutexQueue, sign, chainId,
                   pending, listeners, promise>>
    /\ UNCHANGED <<poller, explorer, network>>

\* stopTransaction / speedUpTransaction up to `await this.sign(...)`: the
\* record is found, the signer is there, the state is copied into tempTxs,
\* the transaction to sign is built.
BumpCall(kind, id) ==
    /\ CanCall("bump")
    /\ Spend("bump")
    /\ kind \in {"stop", "speedUp"}
    /\ id \in Ids(txs)
    /\ sign
    /\ calls' = Append(calls, [NewCall(kind, id) EXCEPT
                    !.pc = "sign", !.snap = txs, !.tmp = Found(txs, id),
                    !.sent = TxParams(kind, Found(txs, id)),
                    !.io = {"sign"}])
    /\ UNCHANGED <<txs, methodData, mutexOwner, mutexQueue, sign, chainId,
                   pending, listeners, promise>>
    /\ UNCHANGED <<poller, explorer, network>>

\* The signer resolved: sendRawTransaction is issued.
BumpSigned(t) ==
    /\ At(t, "stop", "sign") \/ At(t, "speedUp", "sign")
    /\ calls' = [calls EXCEPT ![t] =
           [@ EXCEPT !.pc = "sendRawTransaction",
                     !.io = @ \cup {"sendRawTransaction"}]]
    /\ UNCHANGED <<txs, methodData, mutexOwner, mutexQueue, sign, chainId,
                   pending, listeners, promise, budget>>
    /\ UNCHANGED <<poller, explorer, network>>

\* The signer or the broadcast rejected: the method throws, the state stays.
BumpFail(t) ==
    /\ \E k \in {"stop", "speedUp"} :
          At(t, k, "sign") \/ At(t, k, "sendRawTransaction")
    /\ calls' = [calls EXCEPT ![t] = Ended(@, @.pc \o " failed")]
    /\ UNCHANGED <<txs, methodData, mutexOwner, mutexQueue, sign, chainId,
                   pending, listeners, promise, budget>>
    /\ UNCHANGED <<poller, explorer, network>>

\* sendRawTransaction resolved: the replacement is a copy of the original
\* with a new id and hash and the transaction that was broadcast; tempTxs,
\* the list read at the call, without the original and with the
\* replacement, replaces the state.  stopTransaction emits `${id}:finished`,
\* speedUpTransaction emits `${id}:speedup`.
BumpSubmitted(t) ==
    /\ At(t, "stop", "sendRawTransaction") \/ At(t, "speedUp", "sendRawTransaction")
    /\ LET c == calls[t]
           new == [c.tmp EXCEPT !.id = t, !.ref = <<t, 0>>, !.hash = t,
                                !.status = BumpStatus(c.kind),
                                !.to = c.sent.to, !.value = c.sent.value,
                                !.data = c.sent.data,
                                !.gasPrice = c.sent.gasPrice]
       IN  /\ txs' = Append(Without(c.snap, c.id), new)
           /\ IF c.kind = "stop"
              THEN /\ promise' = PromiseAfterFinished(c.id, new)
                   /\ listeners' = ListenersAfterFinished(c.id)
                   /\ calls' = [calls EXCEPT ![t] = Ended(
                          [c EXCEPT !.ev = Append(@, Event("finished", c.id, new))],
                          "ok")]
              ELSE /\ UNCHANGED <<promise, listeners>>
                   /\ calls' = [calls EXCEPT ![t] = Ended(
                          [c EXCEPT !.ev = Append(@, Event("speedup", c.id, new))],
                          "ok")]
    /\ UNCHANGED <<methodData, mutexOwner, mutexQueue, sign, chainId, pending, budget>>
    /\ UNCHANGED <<poller, explorer, network>>


(***************************************************************************)
(* The confirmation poller: queryTransactionStatuses                       *)
(***************************************************************************)

\* The records a tick queries: submitted, of the current network.
Queried(list) ==
    {i \in DOMAIN list : list[i].status = "submitted" /\ IsCurrentNetwork(list[i])}

\* queryTransactionStatuses up to the await of Promise.all: the state is
\* read, and getTransactionByHash is issued for every record to query.  A
\* tick that finds nothing to query changes nothing and is left out.
TickCall ==
    /\ CanCall("tick")
    /\ Spend("tick")
    /\ Queried(txs) # {}
    /\ calls' = Append(calls, [NewCall("tick", UnknownId) EXCEPT
                    !.pc = "getTransactionByHash", !.snap = txs,
                    !.pend = Queried(txs),
                    !.io = {"getTransactionByHash"}])
    /\ UNCHANGED <<txs, methodData, mutexOwner, mutexQueue, sign, chainId,
                   pending, listeners, promise>>
    /\ UNCHANGED <<poller, explorer, network>>

\* Every reference to the object `ref`, in the locals of every invocation.
PokeCalls(ref) ==
    [u \in DOMAIN calls |->
        [calls[u] EXCEPT
            !.snap = Poke(@, ref),
            !.tmp = IF @.ref = ref THEN [@ EXCEPT !.status = "confirmed"] ELSE @]]

\* safelyExecute(operation) of ../util: the promise it returns never
\* rejects; an error of the operation is logged and swallowed.
SafelyExecute(rejected) == IF rejected THEN "swallowed" ELSE "ok"

\* The tick after its Promise.all settled: safelyExecute swallowed a
\* rejection; queries still in flight keep their callbacks.
TickEnd(c) ==
    LET out == IF c.out = "" THEN SafelyExecute(FALSE) ELSE c.out
    IN  IF c.pend = {} THEN Ended(c, out)
        ELSE [c EXCEPT !.pc = "done", !.out = out]

\* One getTransactionByHash answers: with a block number, without one, or
\* with an error.  The last answer, or the first error, settles Promise.all
\* and the tick goes on to `if (gotUpdates) this.update(...)`.
TickAnswer(t, i, answer) ==
    /\ t \in DOMAIN calls
    /\ calls[t].kind = "tick"
    /\ i \in calls[t].pend
    /\ answer \in {"block", "pending", "error"}
    /\ LET ref == calls[t].snap[i].ref
           poked == IF answer = "block" THEN PokeCalls(ref) ELSE calls
           seen == IF answer = "block" THEN Poke(txs, ref) ELSE txs
           c == poked[t]
           c1 == [c EXCEPT
                    !.pend = @ \ {i},
                    !.got = @ \/ (answer = "block"),
                    !.out = IF c.pc # "done" /\ answer = "error"
                            THEN SafelyExecute(TRUE) ELSE @,
                    !.ev = IF answer = "block"
                           THEN Append(@, Event("confirmed", c.snap[i].id, c.snap[i]))
                           ELSE @]
           settles == c.pc # "done" /\ (answer = "error" \/ c1.pend = {})
       IN  /\ txs' = IF settles /\ c1.got THEN c1.snap ELSE seen
           /\ calls' = [poked EXCEPT ![t] = IF settles \/ c.pc = "done"
                                            THEN TickEnd(c1) ELSE c1]
    /\ UNCHANGED <<methodData, mutexOwner, mutexQueue, sign, chainId, pending,
                   listeners, promise, budget>>
    /\ UNCHANGED <<poller, explorer, network>>

(***************************************************************************)
(* poll: the timer around queryTransactionStatuses                         *)
(***************************************************************************)

\* queryTransactionStatuses as poll starts it: with nothing to query the tick
\* is over at once, and poll goes on after its await.
TickStarted ==
    IF Queried(txs) = {}
    THEN [NewCall("tick", UnknownId) EXCEPT
             !.pc = "done", !.out = "ok", !.timer = "await"]
    ELSE [NewCall("tick", UnknownId) EXCEPT
             !.pc = "getTransactionByHash", !.snap = txs,
             !.pend = Queried(txs), !.io = {"getTransactionByHash"},
             !.timer = "await"]

\* this.handle && clearTimeout(this.handle): a timer that has fired is gone.
TimersAfterClear(pendingTimers) == {tm \in pendingTimers : tm.id # handle}

\* poll(interval) called by a client, up to its await: the interval is
\* configured when given (0 stands for undefined), the pending timer is
\* cleared, the tick is started.
PollCall(iv) ==
    /\ CanCall("poll")
    /\ Spend("poll")
    /\ iv \in {0} \cup Intervals
    /\ interval' = IF iv # 0 THEN iv ELSE interval
    /\ timers' = TimersAfterClear(timers)
    /\ calls' = Append(calls, TickStarted)
    /\ UNCHANGED <<txs, methodData, mutexOwner, mutexQueue, sign, chainId,
                   pending, listeners, promise, handle, included>>
    /\ UNCHANGED <<explorer, network>>

\* poll scheduling with the default interval whatever is configured.
PollResumeWithDefault(t) ==
    /\ At(t, "tick", "done")
    /\ calls[t].timer = "await"
    /\ handle' = t
    /\ timers' = timers \cup {[id |-> t, delay |-> DefaultInterval]}
    /\ calls' = [calls EXCEPT ![t].timer = "set"]
    /\ UNCHANGED <<txs, methodData, mutexOwner, mutexQueue, sign, chainId,
                   pending, listeners, promise, budget, interval, included>>
    /\ UNCHANGED <<explorer, network>>

\* poll after `await safelyExecute(...)`: the tick is over, whether its
\* queries succeeded or failed; the next poll is scheduled after
\* config.interval and the timer is kept in this.handle.
PollResume(t) ==
    /\ At(t, "tick", "done")
    /\ calls[t].timer = "await"
    /\ handle' = t
    /\ timers' = timers \cup {[id |-> t, delay |-> interval]}
    /\ calls' = [calls EXCEPT ![t].timer = "set"]
    /\ UNCHANGED <<txs, methodData, mutexOwner, mutexQueue, sign, chainId,
                   pending, listeners, promise, budget, interval, included>>
    /\ UNCHANGED <<explorer, network>>

\* The timer of poll t fires: this.poll(this.config.interval).  The delay
\* outlasts the queries of the tick before, and the new tick takes the
\* place of the ended one, whose log of events it continues.
TimerFires(t) ==
    /\ \E tm \in timers : tm.id = t
    /\ At(t, "tick", "done")
    /\ calls[t].pend = {}
    /\ timers' = TimersAfterClear({tm \in timers : tm.id # t})
    /\ calls' = [calls EXCEPT ![t] = [TickStarted EXCEPT !.ev = calls[t].ev]]
    /\ UNCHANGED <<txs, methodData, mutexOwner, mutexQueue, sign, chainId,
                   pending, listeners, promise, budget, handle, interval,
                   included>>
    /\ UNCHANGED <<explorer, network>>

\* The node includes a submitted transaction in a block.
Mined(h) ==
    /\ h \notin included
    /\ \E i \in DOMAIN txs : txs[i].status = "submitted" /\ txs[i].hash = h
    /\ included' = included \cup {h}
    /\ UNCHANGED <<txs, methodData, calls, mutexOwner, mutexQueue, sign,
                   chainId, pending, listeners, promise, budget, handle,
                   timers, interval>>
    /\ UNCHANGED <<explorer, network>>

\* What the node can answer to the query i of tick t: a transaction in a
\* block is reported with its block number, another one without; any query
\* can fail.
NodeAnswers(t, i) ==
    IF t \in DOMAIN calls /\ i \in DOMAIN calls[t].snap
    THEN IF calls[t].snap[i].hash \in included THEN {"block", "error"}
         ELSE {"pending", "error"}
    ELSE {}

(***************************************************************************)
(* estimateGas                                                             *)
(***************************************************************************)

\* The drafts handed to estimateGas: `to`, data, gas and gasPrice are
\* optional ("" and Undefined stand for undefined).
Drafts ==
    {[NoMeta EXCEPT !.from = Sender, !.to = to, !.data = data,
                    !.value = DraftValue, !.gas = gas, !.gasPrice = gasPrice] :
        to \in {"", Recipient}, data \in {"", DraftData},
        gas \in {Undefined, <<0>>, <<5, 2, 0, 8>>},
        gasPrice \in {Undefined, DraftGasPrice}}

\* What the node answers to gasPrice, to getBlockByNumber (the gasLimit of
\* the block), to getCode and to estimateGas.
NodeGasPrices == {<<2>>, <<3, 0>>}

NodeGasLimits == {Digits(n, 16) : n \in 0..MaxGas}

NodeCodes == {"", "0x", "0x60"}

NodeEstimates == {Digits(n, 16) : n \in 0..MaxGas} \cup {<<5, 2, 0, 8>>}

\* estimateGas returns { gas, gasPrice }.
Returned(c, gas) ==
    [c EXCEPT !.pc = "done", !.out = "ok", !.ret = [gas |-> gas, gasPrice |-> @.gasPrice]]

\* A node query of estimateGas rejected: so does estimateGas.
Rejected(c) == [c EXCEPT !.pc = "done", !.out = c.pc \o " failed"]

\* An estimator that never looks at the gas of the draft.
PricedWhateverGas(c, gasPrice, isCustomNetwork) ==
    [c EXCEPT !.ret = [@ EXCEPT !.gasPrice = gasPrice],
              !.custom = isCustomNetwork,
              !.pc = "getBlockByNumber", !.io = @ \cup {"getBlockByNumber"}]

\* estimateGas once the gas price is known: isCustomNetwork is read; a draft
\* with gas returns it, another one asks for the latest block.
Priced(c, gasPrice, isCustomNetwork) ==
    LET c1 == [c EXCEPT !.ret = [@ EXCEPT !.gasPrice = gasPrice],
                        !.custom = isCustomNetwork]
    IN  IF c.tmp.gas # Undefined THEN Returned(c1, c.tmp.gas)
        ELSE [c1 EXCEPT !.pc = "getBlockByNumber",
                        !.io = @ \cup {"getBlockByNumber"}]

\* An estimator that takes every network for a default one.
CodedWhateverNetwork(c, code) ==
    IF \/ c.tmp.to = ""
       \/ c.tmp.data = "" /\ code \in {"", "0x"}
    THEN Returned([c EXCEPT !.code = code], <<5, 2, 0, 8>>)
    ELSE [c EXCEPT !.code = code, !.pc = "estimateGas",
                   !.io = @ \cup {"estimateGas"}]

\* estimateGas once the code at `to` is known (undefined without `to`): a
\* plain transfer on a network that is not custom costs 0x5208, anything
\* else is estimated by the node.
Coded(c, code) ==
    IF /\ ~c.custom
       /\ \/ c.tmp.to = ""
          \/ c.tmp.data = "" /\ code \in {"", "0x"}
    THEN Returned([c EXCEPT !.code = code], <<5, 2, 0, 8>>)
    ELSE [c EXCEPT !.code = code, !.pc = "estimateGas",
                   !.io = @ \cup {"estimateGas"}]

\* BN.muln(0.9) and BN.muln(1.5) of a number of one 26-bit word: the product
\* cut to a whole number.
Muln(n, tenths) == (n * tenths) \div 10

\* An estimator that pads without looking at the gas limit of the block.
PaddedWhateverLimit(c, gasHex) ==
    IF c.custom THEN Returned(c, gasHex)
    ELSE Returned(c, Digits(Muln(ParseInt16(gasHex), 15), 16))

\* estimateGas once the node has estimated gasHex: it is returned as it is
\* when it exceeds 0.9 of the block's gasLimit or on a custom network;
\* otherwise 1.5 times it when that is below 0.9 of the gasLimit, and 0.9 of
\* the gasLimit when not.
Padded(c, gasHex) ==
    LET gasBN == ParseInt16(gasHex)
        maxGasBN == Muln(ParseInt16(c.limit), 9)
        paddedGasBN == Muln(gasBN, 15)
    IN  IF gasBN > maxGasBN \/ c.custom THEN Returned(c, gasHex)
        ELSE IF paddedGasBN < maxGasBN THEN Returned(c, Digits(paddedGasBN, 16))
        ELSE Returned(c, Digits(maxGasBN, 16))

\* estimateGas(transaction) up to its first await: the gas price is asked
\* of the node when the draft has none.
EstimateCall(draft) ==
    /\ CanCall("estimate")
    /\ Spend("estimate")
    /\ draft \in Drafts
    /\ \E isCustomNetwork \in BOOLEAN :
          calls' = Append(calls,
              LET c == [NewCall("estimate", UnknownId) EXCEPT !.tmp = draft]
              IN  IF draft.gasPrice = Undefined
                  THEN [c EXCEPT !.pc = "gasPrice", !.io = {"gasPrice"}]
                  ELSE Priced(c, draft.gasPrice, isCustomNetwork))
    /\ UNCHANGED <<txs, methodData, mutexOwner, mutexQueue, sign, chainId,
                   pending, listeners, promise>>
    /\ UNCHANGED <<poller, explorer, network>>

\* The node answered the gasPrice query.
EstimatePriced(t) ==
    /\ At(t, "estimate", "gasPrice")
    /\ \E gasPrice \in NodeGasPrices, isCustomNetwork \in BOOLEAN :
          calls' = [calls EXCEPT ![t] = Priced(@, gasPrice, isCustomNetwork)]
    /\ UNCHANGED <<txs, methodData, mutexOwner, mutexQueue, sign, chainId,
                   pending, listeners, promise, budget>>
    /\ UNCHANGED <<poller, explorer, network>>

\* The node answered getBlockByNumber: the code at `to` is asked for when
\* the draft has a recipient.
EstimateBlock(t) ==
    /\ At(t, "estimate", "getBlockByNumber")
    /\ \E gasLimit \in NodeGasLimits :
          calls' = [calls EXCEPT ![t] =
              LET c == [@ EXCEPT !.limit = gasLimit]
              IN  IF c.tmp.to # ""
                  THEN [c EXCEPT !.pc = "getCode", !.io = @ \cup {"getCode"}]
                  ELSE Coded(c, "")]
    /\ UNCHANGED <<txs, methodData, mutexOwner, mutexQueue, sign, chainId,
                   pending, listeners, promise, budget>>
    /\ UNCHANGED <<poller, explorer, network>>

\* The node answered getCode.
EstimateCode(t) ==
    /\ At(t, "estimate", "getCode")
    /\ \E code \in NodeCodes : calls' = [calls EXCEPT ![t] = Coded(@, code)]
    /\ UNCHANGED <<txs, methodData, mutexOwner, mutexQueue, sign, chainId,
                   pending, listeners, promise, budget>>
    /\ UNCHANGED <<poller, explorer, network>>

\* The node answered estimateGas.
EstimateEstimated(t) ==
    /\ At(t, "estimate", "estimateGas")
    /\ \E gasHex \in NodeEstimates :
          calls' = [calls EXCEPT ![t] = Padded([@ EXCEPT !.est = gasHex], gasHex)]
    /\ UNCHANGED <<txs, methodData, mutexOwner, mutexQueue, sign, chainId,
                   pending, listeners, promise, budget>>
    /\ UNCHANGED <<poller, explorer, network>>

\* The query estimateGas awaits is rejected by the node.
EstimateFail(t) ==
    /\ t \in DOMAIN calls
    /\ calls[t].kind = "estimate"
    /\ calls[t].pc # "done"
    /\ calls' = [calls EXCEPT ![t] = Rejected(@)]
    /\ UNCHANGED <<txs, methodData, mutexOwner, mutexQueue, sign, chainId,
                   pending, listeners, promise, budget>>
    /\ UNCHANGED <<poller, explorer, network>>

(***************************************************************************)
(* fetchAll: the reconciliation with the block explorer                    *)
(***************************************************************************)

\* String.prototype.toLowerCase on the addresses of the model.
ToLowerCase(a) ==
    CASE a = "0xAA" -> "0xaa"
      [] a = "0xBB" -> "0xbb"
      [] OTHER -> a

\* The network ids getNetworkState() answers with: mainnet and one more.
Networks == {"1", "5"}

\* supportedNetworkIds
SupportedNetworkIds == {"1", "3", "4", "42"}

\* random({ msecs: time }): an id no other record has; entry k of the
\* answer that invocation t normalizes.
FreshId(t, k) == 10 * t + k

\* tempStatus of normalizeTx and normalizeTokenTx: Number(confirmations) < 2
\* tells a pending entry, and the sender tells whose it is.
TempStatus(txMeta, address) ==
    IF ParseInt10(txMeta.confirmations) < 2
    THEN IF ToLowerCase(txMeta.from) = ToLowerCase(address)
         THEN "submitted" ELSE "receiving"
    ELSE "confirmed"

\* The fields normalizeTx and normalizeTokenTx fill alike.
NormalizedTransactionBase(txMeta, currentNetworkID, currentChainId, id) ==
    [NoMeta EXCEPT !.id = id, !.ref = <<id, 0>>, !.chain = currentChainId,
                   !.networkID = currentNetworkID,
                   !.time = ParseInt10(txMeta.timeStamp) * 1000,
                   !.from = txMeta.from, !.to = txMeta.to,
                   !.nonce = ParseInt10(txMeta.nonce), !.hash = txMeta.hash]

\* normalizeTx(txMeta, currentNetworkID, currentChainId, address)
NormalizeTx(txMeta, currentNetworkID, currentChainId, address, id) ==
    IF txMeta.isError = "0"
    THEN [NormalizedTransactionBase(txMeta, currentNetworkID, currentChainId, id)
        EXCEPT
            !.status = TempStatus(txMeta, address)]
    ELSE [NormalizedTransactionBase(txMeta, currentNetworkID, currentChainId, id)
        EXCEPT
            !.status = "failed", !.error = "Transaction failed"]

\* normalizeTokenTx(txMeta, currentNetworkID, currentChainId, address)
NormalizeTokenTx(txMeta, currentNetworkID, currentChainId, address, id) ==
    [NormalizedTransactionBase(txMeta, currentNetworkID, currentChainId, id)
        EXCEPT
        !.status = TempStatus(txMeta, address), !.isTokenTx = TRUE]

\* The elements of a list at the indices S, in the order of the list.
SubList(list, S) ==
    LET upTo[i \in 0..Len(list)] ==
            IF i = 0 THEN <<>>
            ELSE IF i \in S THEN Append(upTo[i - 1], list[i])
            ELSE upTo[i - 1]
    IN  upTo[Len(list)]

\* remoteTxs.filter(this.duplicatedTxHash(remoteTxs)): the first entry of
\* each transaction hash.
DuplicatedTxHash(remoteTxs) ==
    SubList(remoteTxs,
            {i \in DOMAIN remoteTxs :
                \A j \in 1..(i - 1) : remoteTxs[j].hash # remoteTxs[i].hash})

\* The test of localTxs.find in filterForRemoteTx: sender and nonce when both
\* are transactions the address sent, the transaction hash otherwise.
SameTransaction(localTx, remoteTx, address) ==
    IF /\ ToLowerCase(localTx.from) = ToLowerCase(address)
       /\ ToLowerCase(remoteTx.from) = ToLowerCase(address)
    THEN localTx.nonce = remoteTx.nonce
    ELSE localTx.hash = remoteTx.hash

\* alreadyInLocalTx of filterForRemoteTx: the index of the first local
\* record that is the transaction of the remote entry, 0 for undefined.
AlreadyInLocalTx(localTxs, address, remoteTx) ==
    IF \E i \in DOMAIN localTxs : SameTransaction(localTxs[i], remoteTx, address)
    THEN CHOOSE i \in DOMAIN localTxs :
            /\ SameTransaction(localTxs[i], remoteTx, address)
            /\ \A j \in 1..(i - 1) :
                    ~SameTransaction(localTxs[j], remoteTx, address)
    ELSE 0

\* The case of filterForRemoteTx that pushes the local record on
\* removeLocalTxs: it is not confirmed and the remote entry is.
PushesLocal(localTxs, address, remoteTx) ==
    LET i == AlreadyInLocalTx(localTxs, address, remoteTx)
    IN  /\ i # 0
        /\ localTxs[i].status # "confirmed"
        /\ remoteTx.status = "confirmed"

\* remoteTxs.filter(this.filterForRemoteTx(localTxs, address, removeLocalTxs))
FilterForRemoteTx(localTxs, address, remoteTxs) ==
    SelectSeq(remoteTxs, LAMBDA remoteTx :
        \/ AlreadyInLocalTx(localTxs, address, remoteTx) = 0
        \/ PushesLocal(localTxs, address, remoteTx))

\* removeLocalTxs after that filter ran: the local records it pushed.
RemoveLocalTxs(localTxs, address, remoteTxs) ==
    {localTxs[AlreadyInLocalTx(localTxs, address, remoteTxs[k])] :
        k \in {k \in DOMAIN remoteTxs : PushesLocal(localTxs, address, remoteTxs[k])}}

\* localTxs.filter(this.filterForLocalTx(removeLocalTxs)): a local record
\* goes when a pushed record has its transactionHash, undefined included.
FilterForLocalTx(localTxs, removeLocalTxs) ==
    SelectSeq(localTxs, LAMBDA localTx :
        \A removed \in removeLocalTxs : removed.hash # localTx.hash)

\* list without its element i.
Dropped(list, i) == SubList(list, DOMAIN list \ {i})

RECURSIVE Sortings(_)
\* tempAllTxs.sort((a, b) => (a.time < b.time ? -1 : 1)): ascending time;
\* the comparator orders two records of one time both ways, and the order
\* the engine leaves them in is any.
Sortings(list) ==
    IF list = <<>> THEN {<<>>}
    ELSE UNION {{<<list[i]>> \o rest : rest \in Sortings(Dropped(list, i))} :
                    i \in {i \in DOMAIN list :
                            \A j \in DOMAIN list : list[i].time <= list[j].time}}

\* { ...tx } of every record of tempAllTxs: the copies invocation t makes.
Copies(list, t) ==
    [i \in DOMAIN list |-> [list[i] EXCEPT !.ref = <<list[i].id, 10 * t>>]]

\* fetchAll(address) up to `await handleTransactionFetch(...)`; on a network
\* that is not supported it returns at once.
FetchCall(address) ==
    /\ CanCall("fetch")
    /\ Spend("fetch")
    /\ LET c == [NewCall("fetch", UnknownId) EXCEPT
                    !.address = address, !.chain = chainId,
                    !.network = network,
                    !.over = Live("fetch")]
       IN  calls' = Append(calls,
                IF network \in SupportedNetworkIds
                THEN [c EXCEPT !.pc = "handleTransactionFetch",
                               !.io = {"handleTransactionFetch"}]
                ELSE Ended(c, "ok"))
    /\ UNCHANGED <<txs, methodData, mutexOwner, mutexQueue, sign, chainId,
                   pending, listeners, promise>>
    /\ UNCHANGED <<poller, explorer, network>>

\* The explorer answered: the entries are normalized and deduplicated, the
\* Store is read and merged list by list, up to the await of Promise.all.
FetchAnswered(t) ==
    /\ At(t, "fetch", "handleTransactionFetch")
    /\ LET c == calls[t]
           remoteEtherTxs == DuplicatedTxHash(
               [k \in DOMAIN explorer.native |->
                   NormalizeTx(explorer.native[k], c.network, c.chain, c.address,
                               FreshId(t, k))])
           remoteTokenTxs == DuplicatedTxHash(
               [k \in DOMAIN explorer.token |->
                   NormalizeTokenTx(explorer.token[k], c.network, c.chain,
                                    c.address,
                                    FreshId(t, Len(explorer.native) + k))])
           localEtherTxs == SelectSeq(txs, LAMBDA localTx : ~localTx.isTokenTx)
           localTokenTxs == SelectSeq(txs, LAMBDA localTx : localTx.isTokenTx)
           removeLocalEtherTxs ==
               RemoveLocalTxs(localEtherTxs, c.address, remoteEtherTxs)
           removeLocalTokenTxs ==
               RemoveLocalTxs(localTokenTxs, c.address, remoteTokenTxs)
           remoteEtherTxsForAdd ==
               FilterForRemoteTx(localEtherTxs, c.address, remoteEtherTxs)
           remoteTokenTxsForAdd ==
               FilterForRemoteTx(localTokenTxs, c.address, remoteTokenTxs)
           tempAllTxs ==
               FilterForLocalTx(localEtherTxs, removeLocalEtherTxs)
                   \o remoteEtherTxsForAdd
                   \o FilterForLocalTx(localTokenTxs, removeLocalTokenTxs)
                   \o remoteTokenTxsForAdd
       IN  calls' = [calls EXCEPT ![t] = [c EXCEPT
                        !.pc = "checkSmartContract",
                        !.snap = tempAllTxs,
                        !.remote = remoteEtherTxs \o remoteTokenTxs,
                        !.removed = removeLocalEtherTxs \cup removeLocalTokenTxs,
                        !.added = remoteEtherTxsForAdd \o remoteTokenTxsForAdd]]
    /\ UNCHANGED <<txs, methodData, mutexOwner, mutexQueue, sign, chainId,
                   pending, listeners, promise, budget>>
    /\ UNCHANGED <<poller, explorer, network>>

\* Promise.all settled: the copies are sorted by time, and the Store is
\* written when it is empty or when a record was pushed or an entry added.
FetchDone(t) ==
    /\ At(t, "fetch", "checkSmartContract")
    /\ LET c == calls[t]
       IN  IF txs = <<>> \/ c.removed # {} \/ c.added # <<>>
           THEN /\ txs' \in Sortings(Copies(c.snap, t))
                /\ calls' = [calls EXCEPT ![t] =
                                [Ended(c, "ok") EXCEPT !.wrote = @ + 1]]
           ELSE /\ txs' = txs
                /\ calls' = [calls EXCEPT ![t] = Ended(c, "ok")]
    /\ UNCHANGED <<methodData, mutexOwner, mutexQueue, sign, chainId,
                   pending, listeners, promise, budget>>
    /\ UNCHANGED <<poller, explorer, network>>

\* handleTransactionFetch or a getCode query of checkSmartContract rejects:
\* fetchAll rejects with it.
FetchFail(t) ==
    /\ \/ At(t, "fetch", "handleTransactionFetch")
       \/ At(t, "fetch", "checkSmartContract")
    /\ calls' = [calls EXCEPT ![t] = Ended(@, "fetch failed")]
    /\ UNCHANGED <<txs, methodData, mutexOwner, mutexQueue, sign, chainId,
                   pending, listeners, promise, budget>>
    /\ UNCHANGED <<poller, explorer, network>>

(***************************************************************************)
(* handleMethodData                                                        *)
(***************************************************************************)

\* handleMethodData up to `await this.mutex.acquire()`.
MethodCall(sel) ==
    /\ CanCall("method")
    /\ Spend("method")
    /\ LET t == Len(calls) + 1
       IN  /\ calls' = Append(calls, [NewCall("method", UnknownId) EXCEPT
                        !.pc = "acquire", !.sel = sel])
           /\ mutexOwner' = OwnerAfterAcquire(t)
           /\ mutexQueue' = QueueAfterAcquire(t)
    /\ UNCHANGED <<txs, methodData, sign, chainId, pending, listeners, promise>>
    /\ UNCHANGED <<poller, explorer, network>>

\* A handleMethodData that looks every prefix up, known or not.
MethodBeginWithoutCache(t) ==
    /\ At(t, "method", "acquire")
    /\ mutexOwner = t
    /\ calls' = [calls EXCEPT ![t] =
            [@ EXCEPT !.pc = "lookup", !.md = methodData, !.io = {"lookup"}]]
    /\ UNCHANGED <<mutexOwner, mutexQueue>>
    /\ UNCHANGED <<txs, methodData, sign, chainId, pending, listeners, promise, budget>>
    /\ UNCHANGED <<poller, explorer, network>>

\* The lock is granted: the entry of a known prefix is returned from the
\* state, an unknown prefix is looked up in the registry.
MethodBegin(t) ==
    /\ At(t, "method", "acquire")
    /\ mutexOwner = t
    /\ IF calls[t].sel \in Keys(methodData)
       THEN /\ calls' = [calls EXCEPT ![t] = [Ended(@, "ok") EXCEPT
                            !.registry = Cached(methodData, calls[t].sel)]]
            /\ mutexOwner' = OwnerAfterRelease(t)
            /\ mutexQueue' = QueueAfterRelease(t)
       ELSE /\ calls' = [calls EXCEPT ![t] =
                   [@ EXCEPT !.pc = "lookup", !.md = methodData,
                             !.io = {"lookup"}]]
            /\ UNCHANGED <<mutexOwner, mutexQueue>>
    /\ UNCHANGED <<txs, methodData, sign, chainId, pending, listeners, promise, budget>>
    /\ UNCHANGED <<poller, explorer, network>>

\* The registry answered: the entry is added to the methodData read before
\* the lookup and returned, the lock is released.
MethodLookedUp(t, registry) ==
    /\ At(t, "method", "lookup")
    /\ methodData' = Stored(calls[t].md, calls[t].sel, registry)
    /\ calls' = [calls EXCEPT ![t] = [Ended(@, "ok") EXCEPT
                    !.registry = registry]]
    /\ mutexOwner' = OwnerAfterRelease(t)
    /\ mutexQueue' = QueueAfterRelease(t)
    /\ UNCHANGED <<txs, sign, chainId, pending, listeners, promise, budget>>
    /\ UNCHANGED <<poller, explorer, network>>

\* The registry lookup rejected: the finally block releases the lock.
MethodLookupFail(t) ==
    /\ At(t, "method", "lookup")
    /\ calls' = [calls EXCEPT ![t] = Ended(@, "lookup failed")]
    /\ mutexOwner' = OwnerAfterRelease(t)
    /\ mutexQueue' = QueueAfterRelease(t)
    /\ UNCHANGED <<txs, methodData, sign, chainId, pending, listeners, promise, budget>>
    /\ UNCHANGED <<poller, explorer, network>>

(***************************************************************************)
(* wipeTransactions and the environment                                    *)
(***************************************************************************)

\* wipeTransactions(ignoreNetwork)
WipeTransactions(ignoreNetwork) ==
    /\ txs # <<>>
    /\ txs' = IF ignoreNetwork THEN <<>>
              ELSE SelectSeq(txs, LAMBDA r : ~IsCurrentNetwork(r))
    /\ UNCHANGED <<methodData, calls, mutexOwner, mutexQueue, sign, chainId,
                   pending, listeners, promise, budget>>
    /\ UNCHANGED <<poller, explorer, network>>

\* configure({ sign }): the signer is set or unset.
SetSign ==
    /\ sign' = ~sign
    /\ UNCHANGED <<txs, methodData, calls, mutexOwner, mutexQueue, chainId,
                   pending, listeners, promise, budget>>
    /\ UNCHANGED <<poller, explorer, network>>

\* The network controller switches provider: getNetworkState() answers with
\* another chain id.
SwitchNetwork ==
    /\ chainId' \in ChainIds \ {chainId}
    /\ UNCHANGED <<txs, methodData, calls, mutexOwner, mutexQueue, sign,
                   pending, listeners, promise, budget>>
    /\ UNCHANGED <<poller, explorer, network>>

\* A client of the public hub emits `${id}:finished` with a copy of the
\* record in the status it decided on (a user decision taken outside the
\* controller, such as cancelled).
HubEmitFinished(id, status) ==
    /\ id \in listeners
    /\ id \in Ids(txs)
    /\ LET meta == [Found(txs, id) EXCEPT
                       !.status = status,
                       !.error = IF status = "failed" THEN "client error"
                                 ELSE @]
       IN  /\ promise' = PromiseAfterFinished(id, meta)
           /\ listeners' = ListenersAfterFinished(id)
    /\ UNCHANGED <<txs, methodData, calls, mutexOwner, mutexQueue, sign,
                   chainId, pending, budget>>
    /\ UNCHANGED <<poller, explorer, network>>

Next ==
    \/ \E nonce \in {NoNonce, 0} : AddCall(nonce)
    \/ \E t \in CallIds : AddDone(t)
    \/ \E t \in CallIds : AddFail(t)
    \/ \E id \in {UnknownId} \cup Ids(txs) : ApproveCall(id)
    \/ \E t \in CallIds : ApproveUnknown(t)
    \/ \E t \in CallIds : ApprovePrecondition(t)
    \/ \E t \in CallIds : ApproveBegin(t)
    \/ \E t \in CallIds : ApproveNonce(t)
    \/ \E t \in CallIds : ApproveNonceFail(t)
    \/ \E t \in CallIds : ApproveSigned(t)
    \/ \E t \in CallIds : ApproveSignFail(t)
    \/ \E t \in CallIds : ApproveSubmitted(t)
    \/ \E t \in CallIds : ApproveSendFail(t)
    \/ \E id \in Ids(txs) : CancelTransaction(id)
    \/ \E k \in {"stop", "speedUp"}, id \in Ids(txs) : BumpCall(k, id)
    \/ \E k \in {"stop", "speedUp"} : BumpUnknown(k, UnknownId)
    \/ \E k \in {"stop", "speedUp"}, id \in Ids(txs) : BumpNoSign(k, id)
    \/ \E t \in CallIds : BumpSigned(t)
    \/ \E t \in CallIds : BumpFail(t)
    \/ \E t \in CallIds : BumpSubmitted(t)
    \/ TickCall
    \/ \E t \in CallIds, i \in CallIds, a \in {"block", "pending", "error"} :
          TickAnswer(t, i, a)
    \/ \E sel \in Selectors : MethodCall(sel)
    \/ \E t \in CallIds : MethodBegin(t)
    \/ \E t \in CallIds : MethodLookedUp(t, Transfer)
    \/ \E t \in CallIds : MethodLookupFail(t)
    \/ \E b \in BOOLEAN : WipeTransactions(b)
    \/ SetSign
    \/ SwitchNetwork

Spec == Init /\ [][Next]_vars


(***************************************************************************)
(* SpecPipeline: the controller is constructed with two persisted          *)
(* unapproved records of the wallet (the `state` argument of the           *)
(* constructor); the environment approves, cancels, wipes and reconfigures.*)
(***************************************************************************)

\* A record of the initial state: unapproved, without a nonce.
Persisted(k, chain) ==
    [NoMeta EXCEPT !.id = -k, !.ref = <<-k, 0>>, !.status = "unapproved",
                   !.chain = chain, !.networkID = Mainnet, !.from = Sender,
                   !.to = Recipient, !.value = DraftValue, !.data = DraftData,
                   !.gasPrice = DraftGasPrice]

InitPipeline ==
    /\ methodData = {}
    /\ calls = <<>>
    /\ mutexOwner = 0
    /\ mutexQueue = <<>>
    /\ sign \in BOOLEAN
    /\ chainId \in ChainIds
    /\ txs = <<Persisted(1, chainId), Persisted(2, chainId)>>
    /\ pending = 0
    /\ listeners = {}
    /\ promise = [i \in CallIds |-> NoPromise]
    /\ budget = [m \in Methods \cup {"total"} |->
                    IF m \in {"approve", "total"} THEN PipelineApproves ELSE 0]
    /\ PollerLeftOut
    /\ explorer = NoResponse
    /\ network = Mainnet

NextPipeline ==
    \/ \E id \in {UnknownId} \cup Ids(txs) : ApproveCall(id)
    \/ \E t \in CallIds : ApproveUnknown(t)
    \/ \E t \in CallIds : ApprovePrecondition(t)
    \/ \E t \in CallIds : ApproveBegin(t)
    \/ \E t \in CallIds : ApproveNonce(t)
    \/ \E t \in CallIds : ApproveNonceFail(t)
    \/ \E t \in CallIds : ApproveSigned(t)
    \/ \E t \in CallIds : ApproveSignFail(t)
    \/ \E t \in CallIds : ApproveSubmitted(t)
    \/ \E t \in CallIds : ApproveSendFail(t)
    \/ \E id \in Ids(txs) : CancelTransaction(id)
    \/ \E b \in BOOLEAN : WipeTransactions(b)
    \/ SetSign
    \/ SwitchNetwork

SpecPipeline == InitPipeline /\ [][NextPipeline]_vars

(***************************************************************************)
(* SpecResult: one record is added and approved, cancelled and wiped,      *)
(* under a signer and a chain id that come and go.                         *)
(***************************************************************************)

InitResult ==
    /\ txs = <<>>
    /\ methodData = {}
    /\ calls = <<>>
    /\ mutexOwner = 0
    /\ mutexQueue = <<>>
    /\ sign \in BOOLEAN
    /\ chainId \in ChainIds
    /\ pending = 0
    /\ listeners = {}
    /\ promise = [i \in CallIds |-> NoPromise]
    /\ budget = [m \in Methods \cup {"total"} |->
                    CASE m = "add" -> 1
                      [] m = "approve" -> ResultApproves
                      [] m = "total" -> 1 + ResultApproves
                      [] OTHER -> 0]
    /\ PollerLeftOut
    /\ explorer = NoResponse
    /\ network = Mainnet

NextResult ==
    \/ \E nonce \in {NoNonce, 0} : AddCall(nonce)
    \/ \E t \in CallIds : AddDone(t)
    \/ \E t \in CallIds : AddFail(t)
    \/ \E id \in {UnknownId} \cup Ids(txs) : ApproveCall(id)
    \/ \E t \in CallIds : ApproveUnknown(t)
    \/ \E t \in CallIds : ApprovePrecondition(t)
    \/ \E t \in CallIds : ApproveBegin(t)
    \/ \E t \in CallIds : ApproveNonce(t)
    \/ \E t \in CallIds : ApproveNonceFail(t)
    \/ \E t \in CallIds : ApproveSigned(t)
    \/ \E t \in CallIds : ApproveSignFail(t)
    \/ \E t \in CallIds : ApproveSubmitted(t)
    \/ \E t \in CallIds : ApproveSendFail(t)
    \/ \E id \in Ids(txs) : CancelTransaction(id)
    \/ \E b \in BOOLEAN : WipeTransactions(b)
    \/ SetSign
    \/ SwitchNetwork

SpecResult == InitResult /\ [][NextResult]_vars


(***************************************************************************)
(* SpecHub: one record is added, approved, cancelled and replaced, and     *)
(* clients of the hub emit `finished` events of their own.                 *)
(***************************************************************************)

InitHub ==
    /\ txs = <<>>
    /\ methodData = {}
    /\ calls = <<>>
    /\ mutexOwner = 0
    /\ mutexQueue = <<>>
    /\ sign \in BOOLEAN
    /\ chainId \in ChainIds
    /\ pending = 0
    /\ listeners = {}
    /\ promise = [i \in CallIds |-> NoPromise]
    /\ budget = [m \in Methods \cup {"total"} |->
                    CASE m = "add" -> 1
                      [] m = "approve" -> HubCalls - 2
                      [] m = "bump" -> HubCalls - 2
                      [] m = "total" -> HubCalls
                      [] OTHER -> 0]
    /\ PollerLeftOut
    /\ explorer = NoResponse
    /\ network = Mainnet

NextHub ==
    \/ \E nonce \in {NoNonce, 0} : AddCall(nonce)
    \/ \E t \in CallIds : AddDone(t)
    \/ \E t \in CallIds : AddFail(t)
    \/ \E id \in Ids(txs) : ApproveCall(id)
    \/ \E t \in CallIds : ApprovePrecondition(t)
    \/ \E t \in CallIds : ApproveBegin(t)
    \/ \E t \in CallIds : ApproveNonce(t)
    \/ \E t \in CallIds : ApproveNonceFail(t)
    \/ \E t \in CallIds : ApproveSigned(t)
    \/ \E t \in CallIds : ApproveSignFail(t)
    \/ \E t \in CallIds : ApproveSubmitted(t)
    \/ \E t \in CallIds : ApproveSendFail(t)
    \/ \E id \in Ids(txs) : CancelTransaction(id)
    \/ \E k \in {"stop", "speedUp"}, id \in Ids(txs) : BumpCall(k, id)
    \/ \E t \in CallIds : BumpSigned(t)
    \/ \E t \in CallIds : BumpFail(t)
    \/ \E t \in CallIds : BumpSubmitted(t)
    \/ \E id \in Ids(txs) : HubEmitFinished(id, "cancelled")

SpecHub == InitHub /\ [][NextHub]_vars


(***************************************************************************)
(* SpecPoller: the controller is constructed with two persisted submitted  *)
(* records; the constructor's poll is in flight, its timers carry the      *)
(* polling on, a client calls poll(interval) and adds a record, the node   *)
(* includes the transactions at some time.  Every query is answered, a     *)
(* transaction in a block is reported as such again and again.             *)
(***************************************************************************)

\* A record of the initial state: submitted on the current chain.
PersistedSubmitted(k, chain) ==
    [NoMeta EXCEPT !.id = -k, !.ref = <<-k, 0>>, !.status = "submitted",
                   !.nonce = k - 1, !.hash = -k, !.raw = TRUE, !.chain = chain,
                   !.networkID = Mainnet, !.from = Sender, !.to = Recipient, !.value = DraftValue,
                   !.data = DraftData, !.gasPrice = DraftGasPrice]

PersistedHashes == {-1, -2}

InitPoller ==
    /\ txs = <<PersistedSubmitted(1, "1"), PersistedSubmitted(2, "1")>>
    /\ methodData = {}
    /\ sign = TRUE
    /\ chainId = "1"
    /\ calls = <<TickStarted>>
    /\ mutexOwner = 0
    /\ mutexQueue = <<>>
    /\ pending = 2
    /\ listeners = {}
    /\ promise = [i \in CallIds |-> NoPromise]
    /\ budget = [m \in Methods \cup {"total"} |->
                    CASE m = "poll" -> PollerPolls
                      [] m = "add" -> 1
                      [] m = "total" -> PollerPolls + 1
                      [] OTHER -> 0]
    /\ handle = 0
    /\ timers = {}
    /\ interval = DefaultInterval
    /\ included = {}
    /\ explorer = NoResponse
    /\ network = Mainnet

\* One query of one tick is answered by the node.
Answered(t, i) == \E a \in NodeAnswers(t, i) : TickAnswer(t, i, a)

\* The node reports the transaction h with its block number to some tick.
BlockReported(h) ==
    \E t \in CallIds, i \in 1..3 :
        /\ t \in DOMAIN calls
        /\ i \in DOMAIN calls[t].snap
        /\ calls[t].snap[i].hash = h
        /\ "block" \in NodeAnswers(t, i)
        /\ TickAnswer(t, i, "block")

NextPoller ==
    \/ AddCall(NoNonce)
    \/ \E t \in CallIds : AddDone(t)
    \/ \E t \in CallIds : AddFail(t)
    \/ \E iv \in {0} \cup Intervals : PollCall(iv)
    \/ \E t \in CallIds : PollResume(t)
    \/ \E t \in CallIds : TimerFires(t)
    \/ \E t \in CallIds, i \in 1..3 : Answered(t, i)
    \/ \E h \in PersistedHashes : Mined(h)

SpecPoller ==
    /\ InitPoller
    /\ [][NextPoller]_vars
    /\ WF_vars(\E t \in CallIds : PollResume(t))
    /\ WF_vars(\E t \in CallIds : TimerFires(t))
    /\ \A t \in 1..(PollerPolls + 2), i \in 1..3 : WF_vars(Answered(t, i))
    /\ \A h \in PersistedHashes : SF_vars(BlockReported(h))

\* The poller alone: the persisted records, the constructor's poll, polls of
\* clients and the node.
InitPolling ==
    /\ txs = <<PersistedSubmitted(1, "1"), PersistedSubmitted(2, "1")>>
    /\ methodData = {}
    /\ sign = TRUE
    /\ chainId = "1"
    /\ calls = <<TickStarted>>
    /\ mutexOwner = 0
    /\ mutexQueue = <<>>
    /\ pending = 2
    /\ listeners = {}
    /\ promise = [i \in CallIds |-> NoPromise]
    /\ budget = [m \in Methods \cup {"total"} |->
                    IF m \in {"poll", "total"} THEN PollerPolls ELSE 0]
    /\ handle = 0
    /\ timers = {}
    /\ interval = DefaultInterval
    /\ included = {}
    /\ explorer = NoResponse
    /\ network = Mainnet

NextPolling ==
    \/ \E iv \in {0} \cup Intervals : PollCall(iv)
    \/ \E t \in CallIds : PollResume(t)
    \/ \E t \in CallIds : TimerFires(t)
    \/ \E t \in CallIds, i \in 1..2 : Answered(t, i)
    \/ \E h \in PersistedHashes : Mined(h)

\* Timers fire, the node answers every query, and a transaction in a block
\* is not failed to be reported for ever.
SpecPolling ==
    /\ InitPolling
    /\ [][NextPolling]_vars
    /\ WF_vars(\E t \in CallIds : PollResume(t))
    /\ WF_vars(\E t \in CallIds : TimerFires(t))
    /\ \A t \in 1..(PollerPolls + 1), i \in 1..2 : WF_vars(Answered(t, i))
    /\ \A h \in PersistedHashes : SF_vars(BlockReported(h))

\* SpecBump: the controller is constructed with one persisted submitted
\* record, of any gas price up to MaxGasPrice or of none; clients stop it
\* and speed it up, with and without a signer.
GasPrices == {Undefined} \cup {Digits(n, 16) : n \in 0..MaxGasPrice}

InitBump ==
    /\ \E price \in GasPrices :
          txs = <<[PersistedSubmitted(1, "1") EXCEPT !.gasPrice = price]>>
    /\ methodData = {}
    /\ sign \in BOOLEAN
    /\ chainId = "1"
    /\ calls = <<>>
    /\ mutexOwner = 0
    /\ mutexQueue = <<>>
    /\ pending = 1
    /\ listeners = {}
    /\ promise = [i \in CallIds |-> NoPromise]
    /\ budget = [m \in Methods \cup {"total"} |->
                    IF m \in {"bump", "total"} THEN BumpCalls ELSE 0]
    /\ PollerLeftOut
    /\ explorer = NoResponse
    /\ network = Mainnet

NextBump ==
    \/ \E k \in {"stop", "speedUp"}, id \in Ids(txs) : BumpCall(k, id)
    \/ \E k \in {"stop", "speedUp"} : BumpUnknown(k, UnknownId)
    \/ \E k \in {"stop", "speedUp"}, id \in Ids(txs) : BumpNoSign(k, id)
    \/ \E t \in CallIds : BumpSigned(t)
    \/ \E t \in CallIds : BumpFail(t)
    \/ \E t \in CallIds : BumpSubmitted(t)

SpecBump == InitBump /\ [][NextBump]_vars

\* SpecEstimate: estimateGas is called once, with any draft; the node answers
\* each query or rejects it, the network is custom or not when it is read.
InitEstimate ==
    /\ txs = <<>>
    /\ methodData = {}
    /\ sign = TRUE
    /\ chainId = "1"
    /\ calls = <<>>
    /\ mutexOwner = 0
    /\ mutexQueue = <<>>
    /\ pending = 0
    /\ listeners = {}
    /\ promise = [i \in CallIds |-> NoPromise]
    /\ budget = [m \in Methods \cup {"total"} |->
                    IF m \in {"estimate", "total"} THEN 1 ELSE 0]
    /\ PollerLeftOut
    /\ explorer = NoResponse
    /\ network = Mainnet

NextEstimate ==
    \/ \E draft \in Drafts : EstimateCall(draft)
    \/ \E t \in CallIds : EstimatePriced(t)
    \/ \E t \in CallIds : EstimateBlock(t)
    \/ \E t \in CallIds : EstimateCode(t)
    \/ \E t \in CallIds : EstimateEstimated(t)
    \/ \E t \in CallIds : EstimateFail(t)

SpecEstimate == InitEstimate /\ [][NextEstimate]_vars

\* SpecFetch: the controller is constructed with a persisted Store of the
\* address, the explorer holds lists that do not change, and fetchAll is
\* called for the address, one call after or during the other.

\* The persisted records of the address, by status, nonce and hash: a draft
\* without a nonce and one with the nonce the client chose, a record that
\* failed after its nonce was assigned, submitted and confirmed ones.
LocalKinds ==
    {<<"unapproved", NoNonce, NoHash>>, <<"failed", 5, NoHash>>,
     <<"unapproved", 6, NoHash>>, <<"submitted", 5, 1>>,
     <<"submitted", 6, 2>>, <<"confirmed", 5, 1>>}

\* The record persisted at place k of the Store, added at second k.
PersistedRecord(k, kind) ==
    [NoMeta EXCEPT !.id = -k, !.ref = <<-k, 0>>, !.status = kind[1],
                   !.nonce = kind[2], !.hash = kind[3], !.chain = "1",
                   !.networkID = Mainnet,
                   !.from = Sender, !.to = Recipient, !.value = DraftValue,
                   !.data = DraftData, !.gasPrice = DraftGasPrice,
                   !.raw = kind[3] # NoHash, !.time = 1000 * k,
                   !.error = IF kind[1] = "failed" THEN "sign failed"
                             ELSE NoError]

LocalStores ==
    UNION {{[k \in 1..n |-> PersistedRecord(k, kinds[k])] :
                kinds \in [1..n -> LocalKinds]} : n \in 0..MaxLocal}

\* An entry of the explorer: a transaction the address sent, with nonce 5 or
\* 6, or one it received.  The explorer writes the address in capitals.
Outgoing(nonce) ==
    [from |-> "0xAA", to |-> Recipient, nonce |-> <<nonce>>, hash |-> nonce - 4]

Incoming(hash) ==
    [from |-> Recipient, to |-> "0xAA", nonce |-> <<7>>, hash |-> hash]

\* confirmations and isError of an entry: pending, confirmed, errored.
Pending == <<<<1>>, "0">>

Confirmed == <<<<2>>, "0">>

Errored == <<<<2>>, "1">>

\* The entry of the explorer's list at place k, mined after every persisted
\* record was added.
Entry(k, kind) ==
    [from |-> kind[1].from, to |-> kind[1].to, nonce |-> kind[1].nonce,
     hash |-> kind[1].hash, confirmations |-> kind[2][1],
     isError |-> kind[2][2], timeStamp |-> Digits(MaxLocal + k, 10)]

NativeKinds ==
    ({Outgoing(5)} \X {Pending, Confirmed, Errored})
        \cup {<<Outgoing(6), Confirmed>>, <<Incoming(3), Pending>>}

TokenKinds == {Incoming(4)} \X {Pending, Errored}

Responses ==
    [native : UNION {{[k \in 1..n |-> Entry(k, kinds[k])] :
                        kinds \in [1..n -> NativeKinds]} : n \in 0..MaxRemote},
     token : {<<>>} \cup {<<Entry(MaxRemote + 1, kind)>> : kind \in TokenKinds}]

InitFetch ==
    /\ txs \in LocalStores
    /\ methodData = {}
    /\ sign = TRUE
    /\ chainId = "1"
    /\ calls = <<>>
    /\ mutexOwner = 0
    /\ mutexQueue = <<>>
    /\ pending = 0
    /\ listeners = {}
    /\ promise = [i \in CallIds |-> NoPromise]
    /\ budget = [m \in Methods \cup {"total"} |->
                    IF m \in {"fetch", "total"} THEN FetchCalls ELSE 0]
    /\ PollerLeftOut
    /\ explorer \in Responses
    /\ network \in Networks

NextFetch ==
    \/ FetchCall(Sender)
    \/ \E t \in CallIds : FetchAnswered(t)
    \/ \E t \in CallIds : FetchDone(t)
    \/ \E t \in CallIds : FetchFail(t)

SpecFetch == InitFetch /\ [][NextFetch]_vars


\* SpecWipe: the controller is constructed with a persisted Store of records
\* of several chain contexts, on any network; the network is switched and
\* the Store is wiped.

\* The record persisted at place k with the chain id and the network id.
PersistedOn(k, chain, networkID) ==
    [PersistedSubmitted(k, chain) EXCEPT !.networkID = networkID]

WipedStores ==
    UNION {{[k \in 1..n |-> PersistedOn(k, on[k][1], on[k][2])] :
                on \in [1..n -> ({"", "1", "5"} \X Networks)]} :
            n \in 0..MaxWiped}

InitWipe ==
    /\ txs \in WipedStores
    /\ methodData = {}
    /\ sign = TRUE
    /\ chainId \in ChainIds
    /\ calls = <<>>
    /\ mutexOwner = 0
    /\ mutexQueue = <<>>
    /\ pending = 0
    /\ listeners = {}
    /\ promise = [i \in CallIds |-> NoPromise]
    /\ budget = [m \in Methods \cup {"total"} |-> 0]
    /\ PollerLeftOut
    /\ explorer = NoResponse
    /\ network \in Networks

NextWipe ==
    \/ \E ignoreNetwork \in BOOLEAN : WipeTransactions(ignoreNetwork)
    \/ SwitchNetwork

SpecWipe == InitWipe /\ [][NextWipe]_vars

\* SpecMethod: handleMethodData is called for two prefixes, any call during
\* or after any other; the registry answers a lookup, with an entry that may
\* differ from one lookup to the next, or rejects it.
MethodSelectors == Selectors \cup {"0x095ea7b3"}

Registries == {Transfer, "approve(address,uint256)"}

InitMethod ==
    /\ txs = <<>>
    /\ methodData = {}
    /\ sign = TRUE
    /\ chainId = "1"
    /\ calls = <<>>
    /\ mutexOwner = 0
    /\ mutexQueue = <<>>
    /\ pending = 0
    /\ listeners = {}
    /\ promise = [i \in CallIds |-> NoPromise]
    /\ budget = [m \in Methods \cup {"total"} |->
                    IF m \in {"method", "total"} THEN MethodCalls ELSE 0]
    /\ PollerLeftOut
    /\ explorer = NoResponse
    /\ network = Mainnet

NextMethod ==
    \/ \E sel \in MethodSelectors : MethodCall(sel)
    \/ \E t \in CallIds : MethodBegin(t)
    \/ \E t \in CallIds, registry \in Registries : MethodLookedUp(t, registry)
    \/ \E t \in CallIds : MethodLookupFail(t)

SpecMethod == InitMethod /\ [][NextMethod]_vars

\* SpecAdd: addTransaction is called with valid and with malformed drafts,
\* any call during or after any other; the gas estimation of a call
\* succeeds or fails.
InitAdd ==
    /\ txs = <<>>
    /\ methodData = {}
    /\ sign = TRUE
    /\ chainId = "1"
    /\ calls = <<>>
    /\ mutexOwner = 0
    /\ mutexQueue = <<>>
    /\ pending = 0
    /\ listeners = {}
    /\ promise = [i \in CallIds |-> NoPromise]
    /\ budget = [m \in Methods \cup {"total"} |->
                    IF m \in {"add", "total"} THEN AddCalls ELSE 0]
    /\ PollerLeftOut
    /\ explorer = NoResponse
    /\ network = Mainnet

NextAdd ==
    \/ \E nonce \in {NoNonce, 0} : AddCall(nonce)
    \/ AddInvalid
    \/ \E t \in CallIds : AddDone(t)
    \/ \E t \in CallIds : AddFail(t)

SpecAdd == InitAdd /\ [][NextAdd]_vars

(***************************************************************************)
(* Properties                                                              *)
(***************************************************************************)

Approvals == {t \in DOMAIN calls : calls[t].kind = "approve"}

\* The place of a status on unapproved -> approved -> signed -> submitted ->
\* confirmed; 0 for the statuses of the side branches.
Rank(status) ==
    CASE status = "unapproved" -> 1
      [] status = "approved" -> 2
      [] status = "signed" -> 3
      [] status = "submitted" -> 4
      [] status = "confirmed" -> 5
      [] OTHER -> 0

\* C1: every approveTransaction invocation has released the mutex by the
\* time it ends, whichever way it ends (here: an ended invocation does not
\* own the mutex, so that the invocations queued behind it can acquire it).
C1_EndedApprovalHoldsNoLock ==
    \A t \in Approvals : calls[t].pc = "done" => mutexOwner # t

\* C4: the status the Store publishes for an id only moves forward along
\* unapproved -> approved -> signed -> submitted -> confirmed: no step takes
\* a record from a status of that order to an earlier one.
C4_StatusNeverRegresses ==
    [][\A i \in DOMAIN txs : \A j \in DOMAIN txs' :
          (txs[i].id = txs'[j].id /\ Rank(txs[i].status) > 0
                                  /\ Rank(txs'[j].status) > 0)
              => Rank(txs'[j].status) >= Rank(txs[i].status)]_vars

\* C5: once the Store holds a record with status confirmed, failed or
\* rejected, no step changes the status stored under that id.
C5_TerminalStatusStays ==
    [][\A i \in DOMAIN txs : \A j \in DOMAIN txs' :
          (txs[i].id = txs'[j].id
              /\ txs[i].status \in {"confirmed", "failed", "rejected"})
              => txs'[j].status = txs[i].status]_vars

\* C6: in every Store state a record carries an error if and only if its
\* status is failed.
C6_ErrorIffFailed ==
    \A i \in DOMAIN txs : (txs[i].error # NoError) <=> (txs[i].status = "failed")

\* C7: a record added without a nonce has no nonce in the Store unless an
\* approveTransaction invocation for it assigned that nonce, and a nonce
\* stored for an id neither changes nor disappears in any step.
C7_NonceAssignedOnce ==
    [][/\ \A i \in DOMAIN txs :
             (/\ txs[i].id \in DOMAIN calls
              /\ calls[txs[i].id].kind = "add"
              /\ calls[txs[i].id].nonce = NoNonce
              /\ txs[i].nonce # NoNonce)
                 => \E t \in Approvals : /\ calls[t].id = txs[i].id
                                         /\ calls[t].nonce = txs[i].nonce
       /\ \A i \in DOMAIN txs : \A j \in DOMAIN txs' :
             (txs[i].id = txs'[j].id /\ txs[i].nonce # NoNonce)
                 => txs'[j].nonce = txs[i].nonce]_vars

\* The record of id has reached the end of its life: it is gone from the
\* Store (cancelled, replaced, wiped) or it is submitted or failed there.
LifecycleEnded(id) ==
    \/ id \notin Ids(txs)
    \/ Found(txs, id).status \in {"submitted", "failed"}

\* C10: the result promise of every record addTransaction returned is
\* settled at most once, and it is settled once the record's life cycle has
\* ended, by whichever branch.
C10_PromiseSettledOnce ==
    \A id \in CallIds :
        promise[id].st # "none" =>
            /\ promise[id].n <= 1
            /\ LifecycleEnded(id) => promise[id].st # "pending"


\* The invocations inside the span from the nonce query to the end of the
\* broadcast.
InPipeline ==
    {t \in Approvals :
        calls[t].pc \in {"getTransactionCount", "sign", "sendRawTransaction"}}

\* C3: at most one approveTransaction invocation is between its nonce query
\* and the completion of its broadcast.
C3_OnePipelineAtATime == Cardinality(InPipeline) <= 1

\* C3 witness: one invocation is broadcasting while another one, called
\* meanwhile, is suspended in the mutex queue.
C3_Witness ==
    \E t1, t2 \in Approvals :
        /\ calls[t1].pc = "sendRawTransaction"
        /\ calls[t2].pc = "acquire"
        /\ \E k \in DOMAIN mutexQueue : mutexQueue[k] = t2

\* Invocation t got its nonce from the nonce query (its record had none).
AssignedByQuery(t) ==
    "getTransactionCount" \in calls[t].io /\ calls[t].nonce # NoNonce

\* Two overlapping invocations, t1 called first, for two records, each
\* assigned a nonce from the node's pending count.
OverlappingPair(t1, t2) ==
    /\ t1 < t2
    /\ t1 \in calls[t2].over
    /\ calls[t1].id # calls[t2].id
    /\ AssignedByQuery(t1)
    /\ AssignedByQuery(t2)

\* C2, as stated: of two overlapping approvals of two records without a
\* nonce, the one called first is assigned the strictly smaller nonce.
C2_DistinctNoncesInCallOrder ==
    \A t1, t2 \in Approvals :
        OverlappingPair(t1, t2) => calls[t1].nonce < calls[t2].nonce

\* C2, amended: of two overlapping approvals of two records without a nonce,
\* the one called first is assigned the strictly smaller nonce when its
\* broadcast was accepted.
C2_DistinctNoncesAfterBroadcast ==
    \A t1, t2 \in Approvals :
        (OverlappingPair(t1, t2) /\ calls[t1].out = "ok")
            => calls[t1].nonce < calls[t2].nonce

\* C2 witness: both invocations of such a pair have broadcast.
C2_Witness ==
    \E t1, t2 \in Approvals :
        /\ OverlappingPair(t1, t2)
        /\ calls[t1].out = "ok"
        /\ calls[t2].out = "ok"

\* Invocation t ends in this step.
EndsNow(t) == calls[t].pc # "done" /\ calls'[t].pc = "done"

\* The errors of the nonce query, of the signer and of the broadcast.
PipelineErrors ==
    {"getTransactionCount failed", "sign failed", "sendRawTransaction failed"}

\* C8: when the nonce query, the signer or the broadcast fails,
\* then at the end of the invocation the record is failed in the Store with
\* the raised error, exactly one `finished` event carrying that record was
\* emitted, the record did not show submitted, and the mutex is not held.
C8_FailureLeavesRecordFailed ==
    [][\A t \in Approvals :
          (EndsNow(t) /\ calls'[t].out \in PipelineErrors) =>
              /\ Found(txs', calls[t].id).status = "failed"
              /\ Found(txs', calls[t].id).error = calls'[t].out
              /\ calls'[t].ev =
                    <<Event("finished", calls[t].id, Found(txs', calls[t].id))>>
              /\ Found(txs, calls[t].id).status # "submitted"
              /\ "submitted" \notin calls'[t].shown
              /\ mutexOwner' # t]_vars

\* Invocation t, whose record was in the Store when it was called, is
\* granted the lock and runs in this step with no signer or no chain id.
RunsWithoutPrecondition(t) ==
    /\ calls[t].pc = "acquire"
    /\ calls'[t].pc # "acquire"
    /\ calls[t].tmp # NoMeta
    /\ ~sign \/ chainId = ""

\* The message the missing precondition is reported with.
PreconditionMessage ==
    IF ~sign THEN "No sign method defined." ELSE "No chainId defined."

\* C9: an approval that runs with no signer, or with no chain
\* id, leaves the record failed with the message of the missing
\* precondition and the result promise rejected, and issues no nonce query,
\* no signing call and no broadcast.
C9_MissingPreconditionFails ==
    [][\A t \in Approvals :
          RunsWithoutPrecondition(t) =>
              /\ calls'[t].pc = "done"
              /\ calls'[t].io = {}
              /\ Found(txs', calls[t].id).status = "failed"
              /\ Found(txs', calls[t].id).error = PreconditionMessage
              /\ (calls[t].id \in CallIds /\ promise[calls[t].id].st # "none") =>
                    promise'[calls[t].id].st \in {"internal", "userRejected"}]_vars

\* The outcome the `finished` listener owes to a payload.
Owed(by) ==
    CASE by.status = "submitted" ->
            [st |-> "resolved", hash |-> by.hash, msg |-> ""]
      [] by.status = "rejected" ->
            [st |-> "userRejected", hash |-> NoHash,
             msg |-> "User rejected the transaction"]
      [] by.status = "cancelled" ->
            [st |-> "internal", hash |-> NoHash,
             msg |-> "User cancelled the transaction"]
      [] by.status = "failed" ->
            [st |-> "internal", hash |-> NoHash, msg |-> by.error]
      [] OTHER ->
            [st |-> "internal", hash |-> NoHash,
             msg |-> "MetaMask Tx Signature: Unknown problem"]

ConfirmedEvents(id) ==
    UNION {{<<t, k>> : k \in {n \in DOMAIN calls[t].ev :
                                  /\ calls[t].ev[n].name = "confirmed"
                                  /\ calls[t].ev[n].id = id}} :
           t \in DOMAIN calls}

\* C12: over any sequence of ticks, overlapping ones included, the event
\* `<id>:confirmed` is emitted at most once for a record.
C12_ConfirmedEmittedOnce ==
    \A id \in Ids(txs) : Cardinality(ConfirmedEvents(id)) <= 1

\* A tick whose await settles in this step: it writes its snapshot back when
\* it got updates.
TickSettles(t) ==
    /\ t \in DOMAIN calls
    /\ calls[t].kind = "tick"
    /\ calls[t].pc # "done"
    /\ calls'[t].pc = "done"

\* The record r of the Store is kept by the step, a submitted status
\* possibly turned into confirmed.
KeptByTick(r) ==
    \E j \in DOMAIN txs' :
        /\ txs'[j].id = r.id
        /\ txs'[j].nonce = r.nonce
        /\ txs'[j].hash = r.hash
        /\ \/ txs'[j].status = r.status
           \/ r.status = "submitted" /\ txs'[j].status = "confirmed"

\* C14: a tick that settles loses nothing the Store held: every record
\* written while the tick was awaiting is still there with its nonce and
\* hash, and only a status that is submitted at that moment is changed.
C14_TickLosesNoWrite ==
    [][\A t \in CallIds :
          TickSettles(t) => \A i \in DOMAIN txs : KeptByTick(txs[i])]_vars


\* The tick t was started by poll, which is awaiting it.
Awaited(t) == calls[t].kind = "tick" /\ calls[t].timer = "await"

\* Polling goes on: a poll is awaiting its tick or a timer is pending.
PollingGoesOn ==
    \/ \E t \in DOMAIN calls : Awaited(t)
    \/ timers # {}

\* After a tick, failed ones included, poll sets its timer to the interval
\* configured at that moment.
ScheduledAfterTick(t) ==
    (Awaited(t) /\ calls[t].pc = "done" /\ calls'[t].timer = "set") =>
        /\ [id |-> t, delay |-> interval] \in timers'
        /\ handle' = t

\* The record with hash h is submitted and the node holds h in a block.
ReportedIncluded(h) ==
    /\ h \in included
    /\ \E i \in DOMAIN txs : txs[i].hash = h /\ txs[i].status = "submitted"

IsConfirmed(h) ==
    \E i \in DOMAIN txs : txs[i].hash = h /\ txs[i].status = "confirmed"

\* C13: polling never stops, a tick with a failed query included: after every
\* tick the next one is scheduled after the interval configured at that
\* moment; and a submitted record the node reports as included is
\* eventually confirmed.
C13_PollingGoesOn ==
    /\ []PollingGoesOn
    /\ [][\A t \in DOMAIN calls : ScheduledAfterTick(t)]_vars
    /\ \A h \in PersistedHashes : ReportedIncluded(h) ~> IsConfirmed(h)

\* C13 witness: a tick lost a query, its failure was swallowed, the next
\* tick is scheduled after an interval configured since, and a record the
\* node had included is confirmed.
C13_Witness ==
    /\ \E t \in DOMAIN calls :
          /\ calls[t].kind = "tick"
          /\ calls[t].out = "swallowed"
          /\ calls[t].timer = "set"
          /\ [id |-> t, delay |-> 2 * DefaultInterval] \in timers
    /\ \E h \in PersistedHashes : h \in included /\ IsConfirmed(h)


(***************************************************************************)
(* Added records, cancel and speed-up                                      *)
(***************************************************************************)

\* The records addTransaction has put into the Store.
Added == {id \in Ids(txs) : id \in DOMAIN calls /\ calls[id].kind = "add"}

\* The step is one of the operations that remove the record id: its
\* cancellation, its replacement by stopTransaction or speedUpTransaction,
\* or a wipe.
Removes(id) ==
    \/ CancelTransaction(id)
    \/ \E t \in DOMAIN calls : calls[t].id = id /\ BumpSubmitted(t)
    \/ \E ignoreNetwork \in BOOLEAN : WipeTransactions(ignoreNetwork)

\* C15: a record addTransaction has put into the Store stays there until it
\* is cancelled, replaced by a cancel or speed-up transaction, or wiped.
C15_AddedRecordStays ==
    [][\A id \in Added : id \in Ids(txs') \/ Removes(id)]_vars


\* The step is a call of stopTransaction or speedUpTransaction.
BumpCalled == Len(calls') = Len(calls) + 1 /\ calls'[Len(calls')].kind \in {"stop", "speedUp"}

\* The invocation the step starts.
Called == calls'[Len(calls')]

\* The gas price p of a record as a number, 0 when absent.
Price(meta) == IF meta.gasPrice = Undefined THEN 0 ELSE ParseInt16(meta.gasPrice)

\* floor(p * 1.5) for stop, floor(p * 1.1) for speedUp.
Raised(kind, p) == IF kind = "stop" THEN (p * 15) \div 10 ELSE (p * 11) \div 10

\* The step completes the stop or speed-up t: the replacement is stored.
BumpCompletes(t) ==
    /\ t \in DOMAIN calls
    /\ calls[t].kind \in {"stop", "speedUp"}
    /\ calls[t].pc = "sendRawTransaction"
    /\ calls'[t].out = "ok"

\* C16: stopTransaction signs and broadcasts a transaction with the gas
\* price floor(p * 1.5), speedUpTransaction with floor(p * 1.1), p being the
\* gas price of the record, 0 when it has none; the replacement is stored
\* with the price that was broadcast.
C16_GasPriceRaised ==
    [][/\ (BumpCalled /\ Called.pc = "sign") =>
             Called.sent.gasPrice =
                 Digits(Raised(Called.kind, Price(Found(txs, Called.id))), 16)
       /\ \A t \in CallIds :
             BumpCompletes(t) =>
                 Found(txs', t).gasPrice = calls[t].sent.gasPrice]_vars

\* C16 witness: a record of the odd price 0x13 was cancelled at 0x1c and its
\* replacement was sped up at 0x1e; both replacements were stored.
C16_Witness ==
    \E t, u \in DOMAIN calls :
        /\ calls[t].kind = "stop" /\ calls[t].out = "ok"
        /\ calls[t].sent.gasPrice = <<1, 12>>
        /\ calls[u].kind = "speedUp" /\ calls[u].out = "ok" /\ calls[u].id = t
        /\ Found(txs, u).gasPrice = <<1, 14>>


\* The replacement the completed stop or speed-up t stored for the original
\* `old`: a fresh id, the nonce and the sender of the original; for a stop, a
\* transfer of nothing to the sender; for a speed-up, the recipient, value
\* and data of the original.
Replaces(new, old, kind) ==
    /\ new.id # old.id
    /\ new.nonce = old.nonce
    /\ new.from = old.from
    /\ new.status = BumpStatus(kind)
    /\ kind = "stop" => new.to = old.from /\ new.value = <<0>>
    /\ kind = "speedUp" =>
          new.to = old.to /\ new.value = old.value /\ new.data = old.data

\* C17: a stop or speed-up that completes removes the record of its id and
\* no other, appends one replacement, and leaves every other record of the
\* Store as it was.
C17_ReplacesExactlyOne ==
    [][\A t \in CallIds :
          BumpCompletes(t) =>
              /\ calls[t].id \notin Ids(txs')
              /\ t \notin Ids(txs)
              /\ Replaces(Found(txs', t), calls[t].tmp, calls[t].kind)
              /\ \A i \in DOMAIN txs :
                    txs[i].id # calls[t].id =>
                        \E j \in DOMAIN txs' : txs'[j] = txs[i]]_vars


\* Without a signer the call the step makes throws "No sign method defined.",
\* the Store stays as it is and no event is emitted.
FailsForNoSigner ==
    /\ Called.pc = "done"
    /\ Called.out = NoSignMsg
    /\ Called.ev = <<>>
    /\ txs' = txs
    /\ listeners' = listeners
    /\ promise' = promise

\* C18 as stated: without a signer every call of stopTransaction or
\* speedUpTransaction, whatever its id, throws "No sign method defined.".
C18_NoSignerFailsForAnyId ==
    [][(BumpCalled /\ ~sign) => FailsForNoSigner]_vars

\* C18, amended: without a signer every call of stopTransaction or
\* speedUpTransaction with the id of a record of the Store throws "No sign
\* method defined.", leaves the Store unchanged and emits no event.
C18_NoSignerFailsForKnownId ==
    [][(BumpCalled /\ ~sign /\ Called.id \in Ids(txs)) => FailsForNoSigner]_vars

\* C18 witness: both methods were called without a signer on a record of the
\* Store and threw.
C18_Witness ==
    /\ ~sign
    /\ \E t, u \in DOMAIN calls :
          /\ calls[t].kind = "stop" /\ calls[u].kind = "speedUp"
          /\ calls[t].id \in Ids(txs) /\ calls[u].id \in Ids(txs)
          /\ calls[t].out = NoSignMsg /\ calls[u].out = NoSignMsg


\* The name of the event a completed stop or speed-up emits for the original.
Emitted(kind) == IF kind = "stop" THEN "finished" ELSE "speedup"

\* The step completes the stop or speed-up t and emits the event `name` for
\* the original id, once, carrying the replacement, with the replacement in
\* the Store and the original out of it.
EmitsAfterReplacing(t, name) ==
    /\ calls'[t].ev = <<Event(name, calls[t].id, Found(txs', t))>>
    /\ t \in Ids(txs')
    /\ calls[t].id \notin Ids(txs')

GasPreset ==
    {t \in DOMAIN calls : calls[t].kind = "estimate" /\ calls[t].tmp.gas # Undefined}

\* The invocation t returned the gas of its draft, with the gas price of the
\* draft or, when it has none, one the node answered.
ReturnedPreset(t) ==
    /\ calls[t].out = "ok"
    /\ calls[t].ret.gas = calls[t].tmp.gas
    /\ IF calls[t].tmp.gasPrice # Undefined
       THEN calls[t].ret.gasPrice = calls[t].tmp.gasPrice
       ELSE calls[t].ret.gasPrice \in NodeGasPrices

\* The invocation t has asked the node for nothing but the gas price, and
\* for that only when its draft has none.
AskedForPriceOnly(t) ==
    calls[t].io \subseteq
        (IF calls[t].tmp.gasPrice = Undefined THEN {"gasPrice"} ELSE {})

\* C20 as stated: with gas pre-set estimateGas returns that gas and the gas
\* price of the draft or of the network, whatever the node answers, and asks
\* for no block, code or estimate.
C20_PresetGasReturned ==
    \A t \in GasPreset :
        /\ AskedForPriceOnly(t)
        /\ calls[t].pc = "done" => ReturnedPreset(t)

\* C20, amended: with gas pre-set estimateGas asks for no block, code or
\* estimate, and returns that gas and the gas price of the draft or of the
\* network, unless the draft has no gas price and the node rejects the
\* gasPrice query: then estimateGas is rejected.
C20_PresetGasReturnedUnlessPriceFails ==
    \A t \in GasPreset :
        /\ AskedForPriceOnly(t)
        /\ calls[t].pc = "done" =>
              \/ ReturnedPreset(t)
              \/ /\ calls[t].tmp.gasPrice = Undefined
                 /\ calls[t].out = "gasPrice failed"
                 /\ calls[t].ret = NoReturn

\* C20 witness: on a custom network a draft with gas 0x0, data, a recipient
\* and no gas price got its gas back with the gas price of the node.
C20_Witness ==
    \E t \in GasPreset :
        /\ calls[t].pc = "done"
        /\ calls[t].custom
        /\ calls[t].tmp.gas = <<0>>
        /\ calls[t].tmp.gasPrice = Undefined
        /\ calls[t].tmp.data = DraftData
        /\ calls[t].tmp.to = Recipient
        /\ calls[t].ret = [gas |-> <<0>>, gasPrice |-> <<3, 0>>]
        /\ calls[t].io = {"gasPrice"}


\* The invocations of estimateGas whose draft has no gas.
GasAbsent ==
    {t \in DOMAIN calls : calls[t].kind = "estimate" /\ calls[t].tmp.gas = Undefined}

\* The draft of t has no destination, or a destination without deployed code
\* and no call data.
PlainTransfer(t) ==
    \/ calls[t].tmp.to = ""
    \/ calls[t].tmp.data = "" /\ calls[t].code \in {"", "0x"}

\* On a network that is not custom a plain transfer is never estimated by
\* the node, and what estimateGas returns for it is 0x5208.
FixedCostOffCustom(t) ==
    (~calls[t].custom /\ PlainTransfer(t)) =>
        /\ "estimateGas" \notin calls[t].io
        /\ calls[t].out = "ok" => calls[t].ret.gas = <<5, 2, 0, 8>>

Estimated ==
    {t \in DOMAIN calls :
        /\ calls[t].kind = "estimate"
        /\ calls[t].est # Undefined
        /\ calls[t].out = "ok"}

\* cap = floor(0.9 * L) for the gas limit L of the block.
Cap(t) == (9 * ParseInt16(calls[t].limit)) \div 10

\* The estimate E of the node and the gas estimateGas returned, as numbers.
Estimate(t) == ParseInt16(calls[t].est)

Gas(t) == ParseInt16(calls[t].ret.gas)

\* C22: with cap = floor(0.9 * L) and padded = floor(1.5 * E), estimateGas
\* returns E when E > cap or the network is custom, padded when E <= cap and
\* padded < cap, and cap otherwise; so never less than E and, off a custom
\* network with E <= cap, never more than cap.
C22_PaddedUpToCap ==
    \A t \in Estimated :
        LET E == Estimate(t)
            padded == (15 * E) \div 10
        IN  /\ Gas(t) = IF E > Cap(t) \/ calls[t].custom THEN E
                        ELSE IF padded < Cap(t) THEN padded
                        ELSE Cap(t)
            /\ Gas(t) >= E
            /\ (~calls[t].custom /\ E <= Cap(t)) => Gas(t) <= Cap(t)

\* C22 witness: off a custom network, with the gas limit 0x13 (cap 17), the
\* odd estimate 0xd was padded to 0x11, capped.
C22_Witness ==
    \E t \in Estimated :
        /\ ~calls[t].custom
        /\ calls[t].limit = <<1, 3>>
        /\ calls[t].est = <<13>>
        /\ calls[t].ret.gas = <<1, 1>>

(***************************************************************************)
(* The reconciliation                                                      *)
(***************************************************************************)

\* fetchAll t returns in this step, after its Promise.all settled.
Merges(t) ==
    /\ At(t, "fetch", "checkSmartContract")
    /\ calls'[t].pc = "done"
    /\ calls'[t].out = "ok"

\* The local records of the list, native or token, that the remote entry is
\* merged against.
LocalTxs(remoteTx) ==
    SelectSeq(txs, LAMBDA localTx : localTx.isTokenTx = remoteTx.isTokenTx)

\* C23: when fetchAll returns, for every remote entry that matches a local
\* record, the Store holds the remote entry and not the local record if the
\* local record is not confirmed and the remote entry is, and the local
\* record and not the remote entry otherwise; it holds every remote entry
\* that matches no local record.  The local record an entry matches is the
\* first one of the same sender and nonce, or otherwise of the same hash.
C23_MergePrecedence ==
    [][\A t \in DOMAIN calls : Merges(t) =>
        \A k \in DOMAIN calls[t].remote :
            LET remoteTx == calls[t].remote[k]
                localTxs == LocalTxs(remoteTx)
                i == AlreadyInLocalTx(localTxs, calls[t].address, remoteTx)
            IN  IF i = 0 THEN remoteTx.id \in Ids(txs')
                ELSE IF /\ localTxs[i].status # "confirmed"
                        /\ remoteTx.status = "confirmed"
                THEN /\ remoteTx.id \in Ids(txs')
                     /\ localTxs[i].id \notin Ids(txs')
                ELSE /\ localTxs[i].id \in Ids(txs')
                     /\ remoteTx.id \notin Ids(txs')]_vars

\* fetchAll t is the second of two runs in a row: the call before it is a
\* fetchAll that queried the explorer and returned before t was called.
SecondRun(t) ==
    /\ t - 1 \in DOMAIN calls
    /\ calls[t - 1].kind = "fetch"
    /\ calls[t - 1].out = "ok"
    /\ "handleTransactionFetch" \in calls[t - 1].io
    /\ calls[t].over = {}

\* C24: a fetchAll that runs right after another one, against the same lists
\* of the explorer, leaves the Store as the first run left it and does not
\* call update.
C24_SecondRunChangesNothing ==
    [][\A t \in DOMAIN calls : Merges(t) /\ SecondRun(t) =>
            txs' = txs /\ calls'[t].wrote = 0]_vars

\* C25: a fetchAll that returns calls update only when it pushed a local
\* record or added a remote entry, and leaves the Store as it is otherwise;
\* one that is called on an unsupported network returns without a write.
C25_RepublishedOnlyWhenChanged ==
    [][/\ \A t \in DOMAIN calls : Merges(t) =>
            IF calls[t].removed # {} \/ calls[t].added # <<>>
            THEN calls'[t].wrote = 1
            ELSE calls'[t].wrote = 0 /\ txs' = txs
       /\ \A t \in DOMAIN calls' \ DOMAIN calls :
            calls'[t].kind = "fetch" /\ calls'[t].pc = "done" =>
                calls'[t].wrote = 0 /\ txs' = txs]_vars

\* The local record is not confirmed and is the same transaction as a
\* confirmed entry of its list in the answer fetchAll t merged.
Superseded(localTx, t) ==
    /\ localTx.status # "confirmed"
    /\ \E k \in DOMAIN calls[t].remote :
            /\ calls[t].remote[k].isTokenTx = localTx.isTokenTx
            /\ calls[t].remote[k].status = "confirmed"
            /\ SameTransaction(localTx, calls[t].remote[k], calls[t].address)

\* C26: when a fetchAll that ran alone returns, every record the Store held
\* is still in it with the same id, status, nonce and hash, unless the
\* record was not confirmed and matched a confirmed remote entry.
C26_DropsOnlyTheMatchedRecord ==
    [][\A t \in DOMAIN calls : Merges(t) /\ Live("fetch") = {t} =>
        \A i \in DOMAIN txs :
            \/ Superseded(txs[i], t)
            \/ \E j \in DOMAIN txs' :
                    /\ txs'[j].id = txs[i].id
                    /\ txs'[j].status = txs[i].status
                    /\ txs'[j].nonce = txs[i].nonce
                    /\ txs'[j].hash = txs[i].hash]_vars

\* The entry of the explorer that fetchAll t normalized under the id.
RawEntry(t, id) ==
    IF id - 10 * t <= Len(explorer.native)
    THEN explorer.native[id - 10 * t]
    ELSE explorer.token[id - 10 * t - Len(explorer.native)]

\* The status of an entry by its error flag, its confirmations and its sender.
StatusOf(txMeta, address) ==
    IF txMeta.isError # "0" THEN "failed"
    ELSE IF ParseInt10(txMeta.confirmations) >= 2 THEN "confirmed"
    ELSE IF ToLowerCase(txMeta.from) = ToLowerCase(address) THEN "submitted"
    ELSE "receiving"

\* C27: every entry fetchAll normalized, of the native list or of the token
\* list, has the status failed when the explorer flags it as errored,
\* otherwise confirmed with two confirmations or more, otherwise submitted
\* when the address sent it and receiving when it did not.
C27_NormalizedStatus ==
    \A t \in DOMAIN calls : \A k \in DOMAIN calls[t].remote :
        calls[t].remote[k].status =
            StatusOf(RawEntry(t, calls[t].remote[k].id), calls[t].address)

(***************************************************************************)
(* The wipe                                                                *)
(***************************************************************************)

\* The record is one of the current chain context: it has the chain id the
\* provider has now, or it has none and has the network id of now.
OfCurrentContext(meta) ==
    \/ meta.chain = chainId
    \/ meta.chain = "" /\ meta.networkID = network

\* C28: wipeTransactions without ignoreNetwork leaves in the Store the
\* records that are not of the current chain context, each as it was and in
\* the order they had, and no other record; with ignoreNetwork it leaves
\* the Store empty.
C28_WipeScopedToChainContext ==
    [][\A ignoreNetwork \in BOOLEAN : WipeTransactions(ignoreNetwork) =>
        IF ignoreNetwork THEN txs' = <<>>
        ELSE /\ \A i \in DOMAIN txs :
                    OfCurrentContext(txs[i]) <=> txs[i].id \notin Ids(txs')
             /\ \A j \in DOMAIN txs' : \E i \in DOMAIN txs : txs'[j] = txs[i]
             /\ \A i, j \in DOMAIN txs :
                    /\ i < j
                    /\ txs[i].id \in Ids(txs')
                    /\ txs[j].id \in Ids(txs')
                    => IndexOf(txs', txs[i].id) < IndexOf(txs', txs[j].id)]_vars

\* A wipe without ignoreNetwork, made with a chain id configured, left a
\* record of another chain and a record without a chain id of another
\* network, in this order, and removed the record between them.
C28_Witness ==
    /\ chainId = "1"
    /\ network = "1"
    /\ Len(txs) = 2
    /\ txs[1].id = -1 /\ txs[1].chain = "5"
    /\ txs[2].id = -3 /\ txs[2].chain = "" /\ txs[2].networkID = "5"

(***************************************************************************)
(* The method-data cache                                                   *)
(***************************************************************************)

\* The calls of handleMethodData for the prefix that looked it up and
\* returned the registry's entry.
LookedUp(sel) ==
    {t \in DOMAIN calls :
        /\ calls[t].kind = "method"
        /\ calls[t].sel = sel
        /\ calls[t].out = "ok"
        /\ "lookup" \in calls[t].io}

\* Call t of handleMethodData ends in this step.
MethodEnds(t) ==
    /\ calls[t].kind = "method"
    /\ calls[t].pc # "done"
    /\ calls'[t].pc = "done"

\* C29: every cached entry stays in the cache as it is; a call that ends
\* when its prefix is cached has made no lookup and returns the cached
\* entry; no prefix is looked up with success more than once; a call whose
\* lookup failed leaves the cache as it is and does not hold the mutex or
\* wait for it.
C29_CacheAppendOnly ==
    [][/\ methodData \subseteq methodData'
       /\ \A sel \in Keys(methodData') : Cardinality(LookedUp(sel)') <= 1
       /\ \A t \in DOMAIN calls : MethodEnds(t) =>
            /\ calls[t].sel \in Keys(methodData) =>
                    /\ "lookup" \notin calls'[t].io
                    /\ calls'[t].out = "ok"
                    /\ calls'[t].registry = Cached(methodData, calls[t].sel)
            /\ calls'[t].out # "ok" =>
                    /\ methodData' = methodData
                    /\ mutexOwner' # t
                    /\ \A k \in DOMAIN mutexQueue' : mutexQueue'[k] # t]_vars

\* Three calls for one prefix ended: the lookup of one failed, one looked
\* the prefix up and stored the entry, one returned the entry from the cache.
C29_Witness ==
    /\ Len(calls) = 3
    /\ \A t \in DOMAIN calls : calls[t].pc = "done" /\ calls[t].sel = "0x095ea7b3"
    /\ \E t \in DOMAIN calls : calls[t].out = "lookup failed"
    /\ \E t \in DOMAIN calls :
            /\ calls[t].out = "ok"
            /\ "lookup" \notin calls[t].io
            /\ <<calls[t].sel, calls[t].registry>> \in methodData
    /\ Cardinality(LookedUp("0x095ea7b3")) = 1
    /\ mutexOwner = 0

(***************************************************************************)
(* The validation of a draft                                               *)
(***************************************************************************)

\* The step is a call of addTransaction that is rejected for its draft.
RejectsDraft ==
    /\ Len(calls') = Len(calls) + 1
    /\ calls'[Len(calls')].kind = "add"
    /\ calls'[Len(calls')].out = "invalid transaction"

\* C30: a call of addTransaction with a malformed draft ends without a
\* query, an event or a listener and leaves the Store as it is; a call whose
\* gas estimation succeeded appends to the Store one record, unapproved and
\* with an id no record has, and emits one unapprovedTransaction event, for
\* this record.
C30_ValidatedBeforeAdded ==
    [][/\ RejectsDraft =>
            /\ calls'[Len(calls')].io = {}
            /\ calls'[Len(calls')].ev = <<>>
            /\ txs' = txs
            /\ listeners' = listeners
       /\ \A t \in DOMAIN calls : AddDone(t) =>
            /\ Len(txs') = Len(txs) + 1
            /\ SubSeq(txs', 1, Len(txs)) = txs
            /\ txs'[Len(txs')].status = "unapproved"
            /\ txs'[Len(txs')].id \notin Ids(txs)
            /\ Len(calls'[t].ev) = 1
            /\ calls'[t].ev[1].name = "unapprovedTransaction"
            /\ calls'[t].ev[1].metaId = txs'[Len(txs')].id]_vars

(***************************************************************************)
(* The statuses an approval publishes                                      *)
(***************************************************************************)

\* Invocation t, which read its record as unapproved, assigns status
\* approved in this step and calls the signer.
Approves(t) ==
    /\ calls[t].pc \in {"acquire", "getTransactionCount"}
    /\ calls'[t].pc = "sign"
    /\ calls[t].tmp.status = "unapproved"

\* The signer has answered invocation t: the broadcast is issued in this step.
IssuesBroadcast(t) ==
    /\ calls[t].pc = "sign"
    /\ calls'[t].pc = "sendRawTransaction"

\* The broadcast of invocation t is accepted in this step.
Succeeds(t) ==
    /\ calls[t].pc = "sendRawTransaction"
    /\ calls'[t].out = "ok"

\* C31: an approval of an unapproved record publishes status approved in
\* the Store when it assigns it, then signed together with the raw signed
\* transaction when the broadcast is issued, then submitted with the hash
\* the broadcast returned (the invocation's number); the `finished` event,
\* the only event of the invocation, carries the record the Store shows.
C31_PublishedInOrder ==
    [][\A t \in Approvals :
          /\ Approves(t) =>
                Found(txs', calls[t].id).status = "approved"
          /\ IssuesBroadcast(t) =>
                /\ Found(txs, calls[t].id).status = "approved"
                /\ Found(txs', calls[t].id).status = "signed"
                /\ Found(txs', calls[t].id).raw = TRUE
          /\ Succeeds(t) =>
                /\ Found(txs, calls[t].id).status = "signed"
                /\ Found(txs', calls[t].id).status = "submitted"
                /\ Found(txs', calls[t].id).hash = t
                /\ calls'[t].ev =
                      <<Event("finished", calls[t].id, Found(txs', calls[t].id))>>]_vars

(***************************************************************************)
(* Published state is replaced, never changed                              *)
(***************************************************************************)

\* C32: a record object that is part of the published state (the ref of a
\* record names the object) has the same contents after every step: a
\* changed record enters the Store as a new object, in a replaced list, so
\* whoever holds the state published before sees what it saw.
C32_PublishedStateIsNeverChanged ==
    [][\A i \in DOMAIN txs, j \in DOMAIN txs' :
          txs'[j].ref = txs[i].ref => txs'[j] = txs[i]]_vars

(***************************************************************************)
(* Overlapping fee bumps of one record                                     *)
(***************************************************************************)

\* The stop or speed-up t was broadcast with success for the record the
\* completing invocation u replaces, and nothing was asked of its replacement.
BroadcastBefore(t, u) ==
    /\ t # u
    /\ calls[t].kind \in {"stop", "speedUp"}
    /\ calls[t].id = calls[u].id
    /\ "sendRawTransaction" \in calls[t].io
    /\ calls[t].out = "ok"
    /\ \A v \in DOMAIN calls : calls[v].id # t

\* C33: when a stop or speed-up completes for a record for which another
\* stop or speed-up was broadcast with success before, the Store holds the
\* replacement records of both and does not hold the original.
C33_EveryBroadcastHasItsReplacement ==
    [][\A t, u \in DOMAIN calls :
          (BumpCompletes(u) /\ BroadcastBefore(t, u)) =>
              /\ calls[u].id \notin Ids(txs')
              /\ u \in Ids(txs')
              /\ t \in Ids(txs')]_vars

(***************************************************************************)
(* SpecCancel: the controller is constructed with two persisted unapproved *)
(* records; clients approve and cancel them.  A record leaves the Store    *)
(* by cancelTransaction alone.                                             *)
(***************************************************************************)

NextCancel ==
    \/ \E id \in {UnknownId} \cup Ids(txs) : ApproveCall(id)
    \/ \E t \in CallIds : ApproveUnknown(t)
    \/ \E t \in CallIds : ApprovePrecondition(t)
    \/ \E t \in CallIds : ApproveBegin(t)
    \/ \E t \in CallIds : ApproveNonce(t)
    \/ \E t \in CallIds : ApproveNonceFail(t)
    \/ \E t \in CallIds : ApproveSigned(t)
    \/ \E t \in CallIds : ApproveSignFail(t)
    \/ \E t \in CallIds : ApproveSubmitted(t)
    \/ \E t \in CallIds : ApproveSendFail(t)
    \/ \E id \in Ids(txs) : CancelTransaction(id)

SpecCancel == InitPipeline /\ [][NextCancel]_vars

\* The ids whose cancellation has taken effect: the records of the initial
\* state that the Store holds no more.
Cancelled == {-1, -2} \ Ids(txs)

\* C34: once the cancellation of a record has taken effect, no approval
\* issues sendRawTransaction for it, whether it was waiting for the lock,
\* for the nonce or for the signer at that moment, and the record is not in
\* the Store again.
C34_NothingAfterCancel ==
    [][/\ \A t \in Approvals :
            IssuesBroadcast(t) => calls[t].id \notin Cancelled
       /\ \A id \in Cancelled : id \notin Ids(txs')]_vars

(***************************************************************************)
(* One timer, one tick                                                     *)
(***************************************************************************)

\* The runs of queryTransactionStatuses that await the node.
TicksInFlight ==
    {t \in DOMAIN calls : calls[t].kind = "tick" /\ calls[t].pc # "done"}

\* C35: whatever poll calls are made, at most one timer of the poller is
\* pending and at most one tick is in flight.
C35_OneTimerOneTick ==
    /\ Cardinality(timers) <= 1
    /\ Cardinality(TicksInFlight) <= 1

====
